---------------------------- MODULE Spec2Model ----------------------------
(***************************************************************************)
(* Workshop portal: provisioning / deprovisioning orchestrator, deletion   *)
(* failure tracking, scheduled cleanup and the subscription allocator.     *)
(*                                                                         *)
(* Handlers are coroutines: every handler is a process whose steps are the *)
(* stretches of code between two awaited calls to a collaborator (identity *)
(* provider, resource provider, table store).  Two specifications run the  *)
(* lifecycle handlers: Spec interleaves up to two handlers, SpecSeq runs   *)
(* one handler at a time.  SpecAlloc runs the subscription allocator.      *)
(***************************************************************************)
EXTENDS Integers, Sequences, FiniteSets, TLC

\* ----------------------------------------------------------------- bounds
\* participants of the uploaded CSV are the aliases 1..MaxParticipants
MaxParticipants == 2
\* failure records that may be live in the deletionfailures table at once
MaxFailures == 4
\* requests and timer runs of one behaviour
MaxCalls == 3
\* subscriptions the tenant may hold
MaxSubs == 3
\* settings.subscription_cache_ttl_seconds, in ticks of the clock
CacheTtl == 1
\* settings.deployment_subscription_id
DeploymentSub == 1
\* settings.azure_sp_subscription_id, the default of a CSV row without id
DefaultSub == 1

Aliases == 1..MaxParticipants
FailIds == 1..MaxFailures
\* dates count in days; with one workshop only the timer's date relative to
\* the workshop's end date matters, so the end date is put on day 1
EndDays == {1}
Todays == {0, 1, 2}

VARIABLES
    \* ---- table store
    ws,        \* the workshops table row of the workshop (RowKey = workshop id)
    pw,        \* the passwords table holds the credentials export of the workshop
    fails,     \* the deletionfailures table: a set of failure records
    \* ---- the cloud
    az_users,  \* identity accounts that exist (by alias: upn = alias@domain)
    az_rgs,    \* resource groups that exist (by alias: rg-workshop-<id8>-<alias>)
    \* ---- handlers in flight (pc and local variables of each coroutine)
    cw,        \* create_workshop
    dw,        \* delete_workshop
    r1,        \* retry_deletion (retry_one)
    ra,        \* retry_all_deletions
    su,        \* update_survey_url
    cl,        \* the timer function workshop_cleanup / cleanup_workshop
    limit,     \* how many handlers may be in flight together
    calls,     \* how many more requests (and timer runs) this behaviour sees
    two_columns,   \* the uploaded CSVs may carry a subscription_id column
    \* ---- SubscriptionService and what it reads
    inventory,     \* what Azure's subscriptions.list() returns now
    azure_cache,   \* self._azure_cache
    cache_age,     \* time.time() - self._cache_time, followed up to the TTL
    portal,        \* the portalsettings row: allow_list_json, deny_list_json
    held,          \* subscription ids of the participants of persisted workshops
    call,          \* the assign_subscriptions call under study and its result
    recall,        \* the call that follows it and its result
    \* ---- CostService
    cost           \* the get_workshop_total_cost call under study and its result

allocVars == <<inventory, azure_cache, cache_age, portal, held, call, recall>>

lifecycleVars ==
    <<ws, pw, fails, az_users, az_rgs, cw, dw, r1, ra, su, cl, limit, calls, two_columns>>

\* ------------------------------------------------------------ the store
\* _workshop_to_entity / _entity_to_workshop: the row keeps status, the
\* participants (participants_json) and survey_url; absent rows read as None.
NoWorkshop == [exists |-> FALSE, status |-> "none", participants |-> {}, survey |-> 0,
               end_date |-> 0, subs |-> [a \in Aliases |-> 0]]

\* a DeletionFailureItem as _failure_to_entity stores it.  resource_name is
\* the resource group name or the upn of the participant `alias`.
FailureItem(id, rtype, alias, rc, err) ==
    [id |-> id, resource_type |-> rtype, alias |-> alias, retry_count |-> rc,
     error_message |-> err, status |-> "pending"]

\* str(uuid.uuid4()): an id no row and no handler holds.  Ids of rows that are
\* gone and that nobody remembers are handed out again, lowest first.
HeldIds ==
    {f.id : f \in fails} \cup {f.id : f \in ra.items}
        \cup (IF r1.pc = "idle" THEN {} ELSE {r1.failure.id})
FreeIds == FailIds \ HeldIds

\* n fresh ids, lowest first, as a sequence
RECURSIVE FreshIds(_, _)
FreshIds(n, free) ==
    IF n = 0 \/ free = {} THEN <<>>
    ELSE LET m == CHOOSE x \in free : \A y \in free : x <= y
         IN <<m>> \o FreshIds(n - 1, free \ {m})

\* list_deletion_failures_by_workshop: every row of the workshop's partition
ListFailures == fails

\* save_workshop_metadata: upsert_entity, creates the row when it is absent
SaveWorkshop(meta) == [meta EXCEPT !.exists = TRUE]

\* ------------------------------------------------------ handlers, idle
CwIdle == [pc |-> "idle", participants |-> {}, subs |-> [a \in Aliases |-> 0],
           end_date |-> 0, created_users |-> {}, created_rgs |-> {},
           template |-> "none", steps |-> [a \in Aliases |-> <<>>],
           policy_failed |-> [a \in Aliases |-> {}],
           tried_users |-> {}, tried_rgs |-> {},
           setup |-> [a \in Aliases |-> "none"], successful |-> {}, rb_rgs |-> {},
           rb_failed |-> {}, rb_users |-> {}, saved |-> FALSE, error |-> "none"]
DwIdle == [pc |-> "idle", metadata |-> NoWorkshop, rg_status |-> [a \in Aliases |-> FALSE],
           user_status |-> [a \in Aliases |-> FALSE], new_ids |-> {}, result |-> "none",
           tried_rgs |-> {}, tried_users |-> {}]
NoFailure == FailureItem(0, "none", 0, 0, "none")
R1Idle == [pc |-> "idle", failure |-> NoFailure, outcome |-> "none",
           success |-> FALSE, last |-> FALSE,
           finalized |-> FALSE, result |-> "none"]
RaIdle == [pc |-> "idle", items |-> {}, all |-> {}, succeeded |-> 0, failed |-> 0,
           finalized |-> FALSE]
SuIdle == [pc |-> "idle", metadata |-> NoWorkshop]
\* what a deletion of the timer's run came to: begin_delete or delete_user
\* returned True, delete_user returned False, or the call raised
CleanupResults == {"none", "true", "false", "raised"}
ClIdle == [pc |-> "idle", participants |-> {}, errors |-> 0, today |-> 0,
           rg_result |-> [a \in Aliases |-> "none"],
           user_result |-> [a \in Aliases |-> "none"], new_ids |-> {}]

\* ------------------------------------------------------ the bulk calls
\* faulty variant: a gather that gives up at the first item that raises; the
\* items behind it in the list are not run
GatherUntilRaise(items, raising) == {a \in items : \A b \in raising : a <= b}

\* asyncio.gather(*tasks, return_exceptions=True) of the four bulk calls: the
\* items whose task is run, whichever of them raise
Gather(items, raising) == items

\* a handler that has returned to its caller holds nothing any more
Returned(p) == p.pc \in {"idle", "gone"}
InFlight ==
    Cardinality({i \in 1..6 : ~Returned(<<cw, dw, r1, ra, su, cl>>[i])})
MayStart == InFlight < limit /\ calls > 0


\* ------------------------------------------------------ create_workshop
\* _setup_participant: the call of the chain RBAC -> deploy -> policy that
\* raised, "ok" when none did, "none" when rg_result is None (not set up).
\* assign_workshop_policies gathers its two assignments with
\* return_exceptions and never raises.
SetupResults == {"ok", "rbac", "deploy"}

\* assign_workshop_policies: the assignments whose exception it caught and
\* logged; their entry of the returned dict is None
PolicyAssignments == {"location", "resource_types"}
PolicyOutcomes == SUBSET PolicyAssignments
SetupChoices(users, rgs) ==
    {f \in [Aliases -> SetupResults \cup {"none"}] :
        \A a \in Aliases : (f[a] = "none") <=> ~(a \in users /\ a \in rgs)}

\* faulty variant: every participant that was set up is kept, failed or not
AllSetupParticipants(setup) == {a \in Aliases : setup[a] # "none"}

\* successful_participants: the setups that returned a participant dict
SuccessfulParticipants(setup) == {a \in Aliases : setup[a] = "ok"}

\* faulty variant: a rollback that goes for the users at once
RollbackUsersFirst(c) ==
    IF c.created_users = {} /\ c.created_rgs = {} THEN "raised" ELSE "rollback_users"

\* the except branch of create_workshop: _rollback_workshop_resources returns
\* at once when nothing was created, else deletes resource groups, then users
RollbackEntry(c) ==
    IF c.created_users = {} /\ c.created_rgs = {} THEN "raised" ELSE "rollback_rgs"

\* settings.allowed_subscription_ids: the ids a CSV row may name
AllowedSubs == 1..MaxSubs

\* _extract_subscription_id: the second column of a row when the CSV has
\* one and it is an allowed subscription, else settings.azure_sp_subscription_id
CsvSubscriptions(P) ==
    IF two_columns THEN [P -> AllowedSubs] ELSE {[a \in P |-> DefaultSub]}

\* faulty variant: a handler that goes on whatever the validation said
SkipsValidation(valid) == "users"

\* Step 0: WorkshopCreateInput(...) sits in its own try, ahead of the try
\* whose except branch rolls back; whatever it raises leaves the handler as
\* InvalidInputError. The verdict of the validator is an input of the model.
AfterValidation(valid) == IF valid THEN "users" ELSE "raised"

\* Step 0 and parse_participants_csv: invalid input raises before anything
\* is created; a valid request carries the CSV's aliases with their
\* subscription ids and the end date.
CreateStart ==
    /\ cw.pc = "idle"
    /\ MayStart
    /\ \E valid \in BOOLEAN, P \in (SUBSET Aliases) \ {{}}, d \in EndDays :
          \E subs \in CsvSubscriptions(P) :
             cw' = IF valid
                   THEN [CwIdle EXCEPT !.pc = AfterValidation(TRUE), !.participants = P,
                             !.subs = [a \in Aliases |-> IF a \in P THEN subs[a] ELSE 0],
                             !.end_date = d]
                   ELSE [CwIdle EXCEPT !.pc = AfterValidation(FALSE),
                                       !.error = "invalid_input"]
    /\ calls' = calls - 1
    /\ UNCHANGED <<ws, pw, fails, az_users, az_rgs, dw, r1, ra, su, cl, limit, two_columns, allocVars, cost>>

\* Step 1: entra_id.create_users_bulk; the users that were created are kept,
\* none created raises InvalidInputError
\* faulty variant: a bulk creation that reports every alias as created
EveryAlias(aliases, created) == aliases

\* create_users_bulk gathers the create_user calls and returns the users of
\* those that did not raise
UserResults(aliases, created) == created

CreateUsers ==
    /\ cw.pc = "users"
    /\ \E S \in SUBSET cw.participants :
          LET tried == Gather(cw.participants, cw.participants \ S)
              user_results == UserResults(cw.participants, S \cap tried)
          IN /\ az_users' = az_users \cup (S \cap tried)
             /\ cw' = IF user_results = {}
                      THEN [cw EXCEPT !.tried_users = tried, !.error = "no_users",
                                      !.pc = RollbackEntry(cw)]
                      ELSE [cw EXCEPT !.tried_users = tried,
                                      !.created_users = user_results, !.pc = "rgs"]
    /\ UNCHANGED <<ws, pw, fails, az_rgs, dw, r1, ra, su, cl, limit, calls, two_columns, allocVars, cost>>

\* Step 2: resource_mgr.create_resource_groups_bulk, one spec per created user
CreateRGs ==
    /\ cw.pc = "rgs"
    /\ \E S \in SUBSET cw.created_users :
          LET tried == Gather(cw.created_users, cw.created_users \ S)
          IN /\ az_rgs' = az_rgs \cup (S \cap tried)
             /\ cw' = [cw EXCEPT !.tried_rgs = tried, !.created_rgs = S \cap tried,
                                 !.pc = "setup"]
    /\ UNCHANGED <<ws, pw, fails, az_users, dw, r1, ra, su, cl, limit, calls, two_columns, allocVars, cost>>

\* base_resources_template of the request: "none", the name of a template
\* the store does not hold, or the name of one it holds
Templates == {"none", "missing", "found"}

\* lines 260-262: deploy_template is called for a requested template that
\* storage.get_template returns
Deploys(template) == template = "found"

\* the calls of _setup_participant's try block, in the order of its code
SetupChain(template) ==
    IF Deploys(template) THEN <<"rbac", "deploy", "policy">> ELSE <<"rbac", "policy">>

\* faulty variant: a chain that goes on after a call raised
AttemptsAll(chain, raised) == chain

\* the calls made when the call `raised` raises ("ok": none does): the try
\* block is left at the raise, the calls behind it are not made
RECURSIVE Attempted(_, _)
Attempted(chain, raised) ==
    IF chain = <<>> THEN <<>>
    ELSE IF Head(chain) = raised THEN <<raised>>
    ELSE <<Head(chain)>> \o Attempted(Tail(chain), raised)

\* the calls each _setup_participant made; none without a resource group
SetupSteps(template, f) ==
    [a \in Aliases |-> IF f[a] = "none" THEN <<>>
                       ELSE Attempted(SetupChain(template), f[a])]

\* Step 3: asyncio.gather of _setup_participant over zip(user_results, rg_specs)
CreateSetup ==
    /\ cw.pc = "setup"
    /\ \E template \in Templates, f \in SetupChoices(cw.created_users, cw.created_rgs),
          failed \in [Aliases -> PolicyOutcomes] :
          /\ \A a \in Aliases : f[a] = "deploy" => Deploys(template)
          /\ \A a \in Aliases : failed[a] # {} => f[a] = "ok"
          /\ cw' = [cw EXCEPT !.template = template, !.steps = SetupSteps(template, f),
                              !.policy_failed = failed,
                              !.setup = f, !.successful = SuccessfulParticipants(f),
                              !.pc = "save_metadata"]
    /\ UNCHANGED <<ws, pw, fails, az_users, az_rgs, dw, r1, ra, su, cl, limit, calls, two_columns, allocVars, cost>>

\* lines 349-354 and 286-288: a persisted participant carries the
\* subscription_id of its CSV row
ParticipantSubs(successful, subs) ==
    [a \in Aliases |-> IF a \in successful THEN subs[a] ELSE 0]

\* Step 4a: storage.save_workshop_metadata(workshop_id, metadata); the write
\* may raise, which enters the except branch
CreateSaveMetadata ==
    /\ cw.pc = "save_metadata"
    /\ \E ok \in BOOLEAN :
          IF ok
          THEN /\ ws' = SaveWorkshop([exists |-> TRUE, status |-> "active",
                                      participants |-> cw.successful, survey |-> 0,
                                      end_date |-> cw.end_date,
                                      subs |-> ParticipantSubs(cw.successful, cw.subs)])
               /\ cw' = [cw EXCEPT !.saved = TRUE, !.pc = "save_passwords"]
          ELSE /\ ws' = ws
               /\ cw' = [cw EXCEPT !.error = "save_metadata", !.pc = RollbackEntry(cw)]
    /\ UNCHANGED <<pw, fails, az_users, az_rgs, dw, r1, ra, su, cl, limit, calls, two_columns, allocVars, cost>>

\* Step 4b: storage.save_passwords_csv(workshop_id, csv_content)
CreateSavePasswords ==
    /\ cw.pc = "save_passwords"
    /\ \E ok \in BOOLEAN :
          IF ok
          THEN /\ pw' = TRUE
               /\ cw' = [cw EXCEPT !.pc = "returned"]
          ELSE /\ pw' = pw
               /\ cw' = [cw EXCEPT !.error = "save_passwords", !.pc = RollbackEntry(cw)]
    /\ UNCHANGED <<ws, fails, az_users, az_rgs, dw, r1, ra, su, cl, limit, calls, two_columns, allocVars, cost>>

\* rollback, first half: `if created_rg_specs:` delete_resource_groups_bulk of
\* all of them; the groups whose deletion is attempted
RollbackRgTargets(c) == c.created_rgs

\* faulty variant: a rollback that gives up on the users once a resource
\* group deletion failed
RollbackUserTargetsUnlessRgFailed(c) ==
    IF c.rb_failed = {} THEN c.created_users ELSE {}

\* rollback, second half: `if created_users:` delete_users_bulk of all upns,
\* whatever the first half did (its errors are caught and logged)
RollbackUserTargets(c) == c.created_users

\* D are the groups whose deletion started, the others are logged as failed
RollbackRGs ==
    /\ cw.pc = "rollback_rgs"
    /\ \E D \in SUBSET RollbackRgTargets(cw) :
          /\ az_rgs' = az_rgs \ D
          /\ cw' = [cw EXCEPT !.rb_rgs = RollbackRgTargets(cw),
                              !.rb_failed = RollbackRgTargets(cw) \ D,
                              !.pc = "rollback_users"]
    /\ UNCHANGED <<ws, pw, fails, az_users, dw, r1, ra, su, cl, limit, calls, two_columns, allocVars, cost>>

RollbackUsers ==
    /\ cw.pc = "rollback_users"
    /\ \E D \in SUBSET (RollbackUserTargets(cw) \cap az_users) :
          /\ az_users' = az_users \ D
          /\ cw' = [cw EXCEPT !.rb_users = RollbackUserTargets(cw), !.pc = "raised"]
    /\ UNCHANGED <<ws, pw, fails, az_rgs, dw, r1, ra, su, cl, limit, calls, two_columns, allocVars, cost>>

\* the response (or the re-raised exception) reaches the caller
CreateReturn ==
    /\ cw.pc \in {"returned", "raised"}
    /\ cw' = [CwIdle EXCEPT !.pc = "gone"]
    /\ UNCHANGED <<ws, pw, fails, az_users, az_rgs, dw, r1, ra, su, cl, limit, calls, two_columns, allocVars, cost>>

\* ------------------------------------------------------ delete_workshop
\* _get_workshop_or_raise: a missing row raises NotFoundError, which ends the
\* handler without any effect; the handlers below start on an existing row.
DeleteStart ==
    /\ dw.pc = "idle"
    /\ MayStart
    /\ ws.exists
    /\ dw' = [DwIdle EXCEPT !.pc = "rgs", !.metadata = ws]
    /\ calls' = calls - 1
    /\ UNCHANGED <<ws, pw, fails, az_users, az_rgs, cw, r1, ra, su, cl, limit, two_columns, allocVars, cost>>

\* Step 1: delete_resource_groups_bulk(rg_specs): a name -> bool map, False
\* for a group whose begin_delete raised
DeleteRGs ==
    /\ dw.pc = "rgs"
    /\ \E S \in SUBSET dw.metadata.participants :
          LET tried == Gather(dw.metadata.participants, dw.metadata.participants \ S)
          IN /\ az_rgs' = az_rgs \ (S \cap tried)
             /\ dw' = [dw EXCEPT !.tried_rgs = tried,
                                 !.rg_status = [a \in Aliases |-> a \in S \cap tried],
                                 !.pc = "users"]
    /\ UNCHANGED <<ws, pw, fails, az_users, cw, r1, ra, su, cl, limit, calls, two_columns, allocVars, cost>>

\* Step 2: delete_users_bulk(upns): a upn -> bool map; delete_user gives
\* False (or raises) for a user that does not exist
DeleteUsers ==
    /\ dw.pc = "users"
    /\ \E S \in SUBSET (dw.metadata.participants \cap az_users) :
          LET tried == Gather(dw.metadata.participants, dw.metadata.participants \ S)
          IN /\ az_users' = az_users \ (S \cap tried)
             /\ dw' = [dw EXCEPT !.tried_users = tried,
                                 !.user_status = [a \in Aliases |-> a \in S \cap tried],
                                 !.pc = "track"]
    /\ UNCHANGED <<ws, pw, fails, az_rgs, cw, r1, ra, su, cl, limit, calls, two_columns, allocVars, cost>>

\* Step 3, lines 479-513: one item per resource group and per user whose
\* status is not True, resource groups first, in participant order
FailedResources(participants, rg_status, user_status) ==
    {<<"resource_group", a>> : a \in {x \in participants : ~rg_status[x]}}
        \cup {<<"user", a>> : a \in {x \in participants : ~user_status[x]}}

\* the position of a failed resource in the failures list
ResourceRank(r) == IF r[1] = "resource_group" THEN r[2] ELSE MaxParticipants + r[2]
PositionOf(r, rs) == Cardinality({x \in rs : ResourceRank(x) <= ResourceRank(r)})

\* faulty variant: one aggregate record for the whole call
AggregateFailure(rs, free) ==
    IF rs = {} THEN {}
    ELSE LET r == CHOOSE x \in rs : \A y \in rs : ResourceRank(x) <= ResourceRank(y)
         IN {FailureItem(FreshIds(1, free)[1], r[1], r[2], 0, "delete_failed")}

\* the DeletionFailureItems of a delete_workshop call, ids freshly drawn
NewFailures(rs, free) ==
    LET ids == FreshIds(Cardinality(rs), free)
    IN {FailureItem(ids[PositionOf(r, rs)], r[1], r[2], 0, "delete_failed") : r \in rs}

\* lines 515-545: save every failure and the metadata with status failed,
\* or, without failures, delete_workshop_metadata (row and passwords)
DeleteFinish ==
    /\ dw.pc = "track"
    /\ LET rs == FailedResources(dw.metadata.participants, dw.rg_status, dw.user_status)
           new == NewFailures(rs, FreeIds)
       IN /\ Cardinality(rs) <= Cardinality(FreeIds)
          /\ IF rs # {}
             THEN /\ fails' = fails \cup new
                  /\ ws' = SaveWorkshop([dw.metadata EXCEPT !.status = "failed"])
                  /\ pw' = pw
                  /\ dw' = [dw EXCEPT !.new_ids = {f.id : f \in new}, !.result = "partial",
                                      !.pc = "returned"]
             ELSE /\ fails' = fails
                  /\ ws' = NoWorkshop
                  /\ pw' = FALSE
                  /\ dw' = [dw EXCEPT !.result = "deleted", !.pc = "returned"]
    /\ UNCHANGED <<az_users, az_rgs, cw, r1, ra, su, cl, limit, calls, two_columns, allocVars, cost>>

DeleteReturn ==
    /\ dw.pc = "returned"
    /\ dw' = DwIdle
    /\ UNCHANGED <<ws, pw, fails, az_users, az_rgs, cw, r1, ra, su, cl, limit, calls, two_columns, allocVars, cost>>

\* ------------------------------------------------ deletion failure retry
\* what the delete call of _retry_single_failure can do: delete the resource
\* and return True, raise, or (EntraIDService.delete_user on a user that is
\* not found) return False without raising
RetryOutcomes(f) ==
    IF f.resource_type = "user" /\ f.alias \notin az_users
    THEN {"false", "raised"}
    ELSE {"deleted", "raised"}

\* lines 598-614: the try block reaches delete_deletion_failure unless the
\* delete call raised; the value it returned is not looked at
RetrySucceeded(o) == o # "raised"

\* delete_deletion_failure: delete_entity of the row (no row: nothing to do)
DeleteFailureRow(fs, id) == {g \in fs : g.id # id}

\* update_deletion_failure: update_entity(mode="merge") of the two fields
UpdateFailureRow(fs, id, rc, err) ==
    {IF g.id = id THEN [g EXCEPT !.retry_count = rc, !.error_message = err] ELSE g :
        g \in fs}
RowExists(fs, id) == \E g \in fs : g.id = id

\* faulty variant: a failed retry leaves retry_count as it is
SameRetryCount(f) == f.retry_count

\* lines 623-630: the retry_count written is the one of the listed item + 1
NextRetryCount(f) == f.retry_count + 1

\* the table after _retry_single_failure(f) whose delete call did o
FailsAfterRetry(fs, f, o) ==
    IF RetrySucceeded(o)
    THEN DeleteFailureRow(fs, f.id)
    ELSE UpdateFailureRow(fs, f.id, NextRetryCount(f), "retry_error")

\* the cloud after the delete call
UsersAfterRetry(f, o) ==
    IF o = "deleted" /\ f.resource_type = "user" THEN az_users \ {f.alias} ELSE az_users
RgsAfterRetry(f, o) ==
    IF o = "deleted" /\ f.resource_type = "resource_group" THEN az_rgs \ {f.alias}
    ELSE az_rgs

\* retry_deletion, lines 670-678: the workshop and the failure must exist
RetryStart ==
    /\ r1.pc = "idle"
    /\ MayStart
    /\ ws.exists
    /\ \E f \in ListFailures : r1' = [R1Idle EXCEPT !.pc = "delete", !.failure = f]
    /\ calls' = calls - 1
    /\ UNCHANGED <<ws, pw, fails, az_users, az_rgs, cw, dw, ra, su, cl, limit, two_columns, allocVars, cost>>

\* _retry_single_failure(failure): the delete call and the row update that
\* follows it.  A failed retry of a row that is gone makes update_entity
\* raise, which ends the handler with that error.
RetryExec ==
    /\ r1.pc = "delete"
    /\ \E o \in RetryOutcomes(r1.failure) :
          /\ fails' = FailsAfterRetry(fails, r1.failure, o)
          /\ az_users' = UsersAfterRetry(r1.failure, o)
          /\ az_rgs' = RgsAfterRetry(r1.failure, o)
          /\ r1' = IF RetrySucceeded(o)
                   THEN [r1 EXCEPT !.outcome = o, !.success = TRUE, !.pc = "finalize",
                                   !.last = (RowExists(fails, r1.failure.id)
                                             /\ fails' = {})]
                   ELSE [r1 EXCEPT !.outcome = o, !.pc = "returned",
                                   !.result = IF RowExists(fails, r1.failure.id)
                                              THEN "Retry failed" ELSE "error"]
    /\ UNCHANGED <<ws, pw, cw, dw, ra, su, cl, limit, calls, two_columns, allocVars, cost>>

\* faulty variant: finalization after every successful retry
FinalizesAlways(fs) == TRUE

\* _finalize_workshop_if_resolved: no failure left -> delete_workshop_metadata
Finalizes(fs) == fs = {}

RetryFinalize ==
    /\ r1.pc = "finalize"
    /\ IF Finalizes(ListFailures)
       THEN /\ ws' = NoWorkshop
            /\ pw' = FALSE
            /\ r1' = [r1 EXCEPT !.finalized = TRUE, !.result = "Retry succeeded",
                                !.pc = "returned"]
       ELSE /\ UNCHANGED <<ws, pw>>
            /\ r1' = [r1 EXCEPT !.result = "Retry succeeded", !.pc = "returned"]
    /\ UNCHANGED <<fails, az_users, az_rgs, cw, dw, ra, su, cl, limit, calls, two_columns, allocVars, cost>>

RetryReturn ==
    /\ r1.pc = "returned"
    /\ r1' = R1Idle
    /\ UNCHANGED <<ws, pw, fails, az_users, az_rgs, cw, dw, ra, su, cl, limit, calls, two_columns, allocVars, cost>>

\* retry_all_deletions, lines 710-717: nothing listed returns at once
RetryAllStart ==
    /\ ra.pc = "idle"
    /\ MayStart
    /\ ws.exists
    /\ ListFailures # {}
    /\ ra' = [RaIdle EXCEPT !.pc = "loop", !.items = ListFailures, !.all = ListFailures]
    /\ calls' = calls - 1
    /\ UNCHANGED <<ws, pw, fails, az_users, az_rgs, cw, dw, r1, su, cl, limit, two_columns, allocVars, cost>>

\* the next item of `for failure in items` (the list order is the order of
\* the rows' keys, which ids model)
NextItem(items) == CHOOSE f \in items : \A g \in items : f.id <= g.id

\* faulty variant: the loop gives up at the first failed retry
StopAtFailure(items, f, ok) == IF ok THEN items \ {f} ELSE {}

\* `for failure in items`: what is left to do after the turn for f, whether
\* its retry succeeded or not
RemainingItems(items, f, ok) == items \ {f}

\* one turn of the loop, lines 721-728
RetryAllStep ==
    /\ ra.pc = "loop"
    /\ ra.items # {}
    /\ LET f == NextItem(ra.items)
       IN \E o \in RetryOutcomes(f) :
             /\ fails' = FailsAfterRetry(fails, f, o)
             /\ az_users' = UsersAfterRetry(f, o)
             /\ az_rgs' = RgsAfterRetry(f, o)
             /\ ra' = IF ~RetrySucceeded(o) /\ ~RowExists(fails, f.id)
                      THEN [ra EXCEPT !.items = {}, !.pc = "returned"]
                      ELSE [ra EXCEPT
                              !.items = RemainingItems(ra.items, f, RetrySucceeded(o)),
                              !.succeeded = IF RetrySucceeded(o) THEN @ + 1 ELSE @,
                              !.failed = IF RetrySucceeded(o) THEN @ ELSE @ + 1,
                              !.pc = IF RemainingItems(ra.items, f, RetrySucceeded(o)) = {}
                                     THEN "finalize" ELSE "loop"]
    /\ UNCHANGED <<ws, pw, cw, dw, r1, su, cl, limit, calls, two_columns, allocVars, cost>>

RetryAllFinalize ==
    /\ ra.pc = "finalize"
    /\ IF Finalizes(ListFailures)
       THEN /\ ws' = NoWorkshop
            /\ pw' = FALSE
            /\ ra' = [ra EXCEPT !.finalized = TRUE, !.pc = "returned"]
       ELSE /\ UNCHANGED <<ws, pw>>
            /\ ra' = [ra EXCEPT !.pc = "returned"]
    /\ UNCHANGED <<fails, az_users, az_rgs, cw, dw, r1, su, cl, limit, calls, two_columns, allocVars, cost>>

RetryAllReturn ==
    /\ ra.pc = "returned"
    /\ ra' = RaIdle
    /\ UNCHANGED <<ws, pw, fails, az_users, az_rgs, cw, dw, r1, su, cl, limit, calls, two_columns, allocVars, cost>>

\* ---------------------------------------------------- update_survey_url
SurveyStart ==
    /\ su.pc = "idle"
    /\ MayStart
    /\ ws.exists
    /\ su' = [pc |-> "write", metadata |-> ws]
    /\ calls' = calls - 1
    /\ UNCHANGED <<ws, pw, fails, az_users, az_rgs, cw, dw, r1, ra, cl, limit, two_columns, allocVars, cost>>

\* metadata["survey_url"] = body.survey_url; save_workshop_metadata(metadata)
SurveyWrite ==
    /\ su.pc = "write"
    /\ ws' = SaveWorkshop([su.metadata EXCEPT !.survey = 1])
    /\ su' = SuIdle
    /\ UNCHANGED <<pw, fails, az_users, az_rgs, cw, dw, r1, ra, cl, limit, calls, two_columns, allocVars, cost>>

\* ------------------------------------- the timer function (function_app)
\* faulty variant: a workshop that ends today counts as expired
ExpiredOrEndsToday(end_date, today) == end_date <= today

\* workshop_cleanup, lines 90-128: the workshops whose end date lies before
\* today (UTC) are cleaned up, one after the other
Expired(end_date, today) == end_date < today

\* workshops_to_cleanup of a run of the timer on the day `today`
WorkshopsToCleanup(today) == ws.exists /\ Expired(ws.end_date, today)

CleanupStart ==
    /\ Returned(cl)
    /\ MayStart
    /\ \E today \in Todays :
          /\ WorkshopsToCleanup(today)
          /\ cl' = [ClIdle EXCEPT !.pc = "rgs", !.participants = ws.participants,
                                  !.today = today]
    /\ calls' = calls - 1
    /\ UNCHANGED <<ws, pw, fails, az_users, az_rgs, cw, dw, r1, ra, su, limit, two_columns, allocVars, cost>>

\* lines 112-114: a run of the timer that finds no expired workshop returns
CleanupSkip ==
    /\ Returned(cl)
    /\ MayStart
    /\ \E today \in Todays :
          /\ ~WorkshopsToCleanup(today)
          /\ cl' = [ClIdle EXCEPT !.pc = "gone", !.today = today]
    /\ calls' = calls - 1
    /\ UNCHANGED <<ws, pw, fails, az_users, az_rgs, cw, dw, r1, ra, su, limit, two_columns, allocVars, cost>>

\* _save_failure_entity for each resource in rs, ids freshly drawn
CleanupFailures(rtype, as, free) ==
    LET ids == FreshIds(Cardinality(as), free)
    IN {FailureItem(ids[Cardinality({b \in as : b <= a})], rtype, a, 0, "cleanup_error") :
          a \in as}

\* cleanup_workshop, lines 185-212: begin_delete per resource group; every
\* exception is saved as a failure record at once
CleanupRGs ==
    /\ cl.pc = "rgs"
    /\ \E S \in SUBSET cl.participants :
          LET bad == cl.participants \ S
          IN /\ Cardinality(bad) <= Cardinality(FreeIds)
             /\ az_rgs' = az_rgs \ S
             /\ fails' = fails \cup CleanupFailures("resource_group", bad, FreeIds)
             /\ cl' = [cl EXCEPT !.errors = @ + Cardinality(bad),
                                 !.rg_result = [a \in Aliases |->
                                     IF a \in S THEN "true"
                                     ELSE IF a \in bad THEN "raised" ELSE "none"],
                                 !.new_ids = {f.id : f \in CleanupFailures("resource_group",
                                                                           bad, FreeIds)},
                                 !.pc = "users"]
    /\ UNCHANGED <<ws, pw, az_users, cw, dw, r1, ra, su, limit, calls, two_columns, allocVars, cost>>

\* lines 214-234: delete_user per upn; it deletes the user and returns True,
\* returns False for a user it does not find, or raises; only an exception
\* is saved as a failure record
CleanupUsers ==
    /\ cl.pc = "users"
    /\ \E bad \in SUBSET cl.participants :
          /\ Cardinality(bad) <= Cardinality(FreeIds)
          /\ az_users' = az_users \ (cl.participants \ bad)
          /\ fails' = fails \cup CleanupFailures("user", bad, FreeIds)
          /\ cl' = [cl EXCEPT !.errors = @ + Cardinality(bad),
                              !.user_result = [a \in Aliases |->
                                  IF a \in bad THEN "raised"
                                  ELSE IF a \notin cl.participants THEN "none"
                                  ELSE IF a \in az_users THEN "true" ELSE "false"],
                              !.new_ids = @ \cup {f.id : f \in CleanupFailures("user", bad,
                                                                               FreeIds)},
                              !.pc = "finish"]
    /\ UNCHANGED <<ws, pw, az_rgs, cw, dw, r1, ra, su, limit, calls, two_columns, allocVars, cost>>

\* lines 236-272: with errors, get_entity + update_entity(merge) of status
\* (a missing row raises, which is caught); without, delete row and passwords
CleanupFinish ==
    /\ cl.pc = "finish"
    /\ IF cl.errors > 0
       THEN /\ ws' = IF ws.exists THEN [ws EXCEPT !.status = "failed"] ELSE ws
            /\ pw' = pw
       ELSE /\ ws' = NoWorkshop
            /\ pw' = FALSE
    /\ cl' = ClIdle
    /\ UNCHANGED <<fails, az_users, az_rgs, cw, dw, r1, ra, su, limit, calls, two_columns, allocVars, cost>>

\* ------------------------------------------------- SubscriptionService
\* Subscription ids are strings: 0 is the empty string, 1..MaxSubs are the
\* lowercase ids, MaxSubs + i is the id i written in upper case.
SubIds == 1..MaxSubs
Upper(i) == i + MaxSubs

\* str.lower()
Lower(x) == IF x > MaxSubs THEN x - MaxSubs ELSE x

\* the elements of a sequence
Range(q) == {q[i] : i \in 1..Len(q)}

\* a set of ids as the ascending list subscriptions.list() returns
RECURSIVE SortedSeq(_)
SortedSeq(S) ==
    IF S = {} THEN <<>>
    ELSE LET m == CHOOSE x \in S : \A y \in S : x <= y
         IN <<m>> \o SortedSeq(S \ {m})

\* _normalize_ids: drop empty values, lowercase, keep the first of each id
RECURSIVE NormalizeIds(_)
NormalizeIds(values) ==
    IF values = <<>> THEN <<>>
    ELSE LET n == Len(values)
             init == NormalizeIds(SubSeq(values, 1, n - 1))
             lower == Lower(values[n])
         IN IF lower = 0 \/ lower \in Range(init) THEN init ELSE Append(init, lower)

\* faulty variant: a cache that never expires
CacheNeverExpires(cache, age) == cache # <<>>

\* _cache_valid: a non-empty cache younger than the TTL
CacheValid(cache, age) == cache # <<>> /\ age < CacheTtl

\* _get_azure_subscriptions: the cached list, or a fetch that refills the cache
GetAzureSubscriptions(force_refresh) ==
    IF CacheValid(azure_cache, cache_age) /\ ~force_refresh
    THEN [subscriptions |-> azure_cache, from_cache |-> TRUE, fetched |-> FALSE,
          cache |-> azure_cache, age |-> cache_age]
    ELSE [subscriptions |-> inventory, from_cache |-> FALSE, fetched |-> TRUE,
          cache |-> inventory, age |-> 0]

\* get_portal_subscription_settings: the two lists of the settings row
GetPortalSubscriptionSettings(row) ==
    [allow_list |-> row.allow_list, deny_list |-> row.deny_list]

\* settings_data.get("in_use_map", {}): subscription id -> workshop id
InUseMap(settings_data) ==
    IF "in_use_map" \in DOMAIN settings_data THEN settings_data.in_use_map ELSE <<>>

\* faulty variant: a pruning that keeps every entry
KeepsStale(list, azure_ids) == list

\* lines 132-133 and 243-244: [sid for sid in list if sid in azure_ids]
KnownOnly(list, azure_ids) == SelectSeq(list, LAMBDA sid : sid \in azure_ids)

\* faulty variant: a filter that forgets the allow list
ApplyFiltersDenyOnly(subscriptions, allow_list, deny_list) ==
    [available |-> SelectSeq(subscriptions, LAMBDA sub : Lower(sub) \notin Range(deny_list)),
     pruned_ids |-> <<>>, allow_list |-> allow_list, deny_list |-> deny_list,
     saved |-> FALSE]

\* _apply_filters: prune the ids Azure does not know (and save the pruned
\* lists), then keep what is not denied and, with an allow list, allowed
ApplyFilters(subscriptions, allow_list, deny_list) ==
    LET azure_ids == {Lower(x) : x \in Range(subscriptions)}
        Known(sid) == sid \in azure_ids
        pruned_ids == SelectSeq(allow_list \o deny_list, LAMBDA sid : ~Known(sid))
        allow == IF pruned_ids # <<>> THEN KnownOnly(allow_list, azure_ids) ELSE allow_list
        deny == IF pruned_ids # <<>> THEN KnownOnly(deny_list, azure_ids) ELSE deny_list
        Passes(sub) ==
            /\ Lower(sub) \notin Range(deny)
            /\ allow # <<>> => Lower(sub) \in Range(allow)
    IN [available |-> SelectSeq(subscriptions, Passes), pruned_ids |-> pruned_ids,
        allow_list |-> allow, deny_list |-> deny, saved |-> pruned_ids # <<>>]

\* get_available_subscriptions: the result dict, with the cache and the
\* settings row as the call leaves them.  No inventory raises
\* ServiceUnavailableError (after the cache was refilled).
GetAvailableSubscriptions(force_refresh) ==
    LET got == GetAzureSubscriptions(force_refresh)
        settings_data == GetPortalSubscriptionSettings(portal)
        allow_list == NormalizeIds(settings_data.allow_list)
        deny0 == NormalizeIds(settings_data.deny_list)
        deployment_sub == Lower(DeploymentSub)
        deny_list == IF deployment_sub # 0 /\ deployment_sub \notin Range(deny0)
                     THEN Append(deny0, deployment_sub) ELSE deny0
        f == ApplyFilters(got.subscriptions, allow_list, deny_list)
    IN IF got.subscriptions = <<>>
       THEN [error |-> "ServiceUnavailable", cache |-> got.cache, age |-> got.age,
             row |-> portal, fetched |-> got.fetched, listing |-> got.subscriptions]
       ELSE [error |-> "none", subscriptions |-> f.available,
             fetched |-> got.fetched, listing |-> got.subscriptions,
             allow_list |-> f.allow_list, deny_list |-> f.deny_list,
             in_use_map |-> InUseMap(settings_data), pruned_ids |-> f.pruned_ids,
             from_cache |-> (got.from_cache /\ ~force_refresh),
             cache |-> got.cache, age |-> got.age,
             row |-> IF f.saved
                     THEN [allow_list |-> f.allow_list, deny_list |-> f.deny_list]
                     ELSE portal]

\* update_subscription_settings(allow_list, deny_list): the result dict, with
\* the cache and the settings row as the call leaves them
UpdateSubscriptionSettings(allow_list, deny_list) ==
    LET deployment_sub == Lower(DeploymentSub)
        allow == SelectSeq(NormalizeIds(allow_list), LAMBDA sid : sid # deployment_sub)
        deny == SelectSeq(NormalizeIds(deny_list), LAMBDA sid : sid # deployment_sub)
        got == GetAzureSubscriptions(TRUE)
        azure_ids == {Lower(x) : x \in Range(got.subscriptions)}
        pruned_allow == KnownOnly(allow, azure_ids)
        pruned_deny == KnownOnly(deny, azure_ids)
        pruned_ids == SelectSeq(allow \o deny, LAMBDA sid : sid \notin azure_ids)
        f == ApplyFilters(got.subscriptions, pruned_allow, pruned_deny)
    IN IF got.subscriptions = <<>>
       THEN [error |-> "ServiceUnavailable", cache |-> got.cache, age |-> got.age,
             row |-> portal, fetched |-> got.fetched, listing |-> got.subscriptions]
       ELSE [error |-> "none", allow_list |-> f.allow_list, deny_list |-> f.deny_list,
             pruned_ids |-> pruned_ids, subscriptions |-> f.available,
             from_cache |-> FALSE,
             fetched |-> got.fetched, listing |-> got.subscriptions,
             cache |-> got.cache, age |-> got.age,
             row |-> [allow_list |-> f.allow_list, deny_list |-> f.deny_list]]

\* the first element of a non-empty sequence that satisfies Test
FirstThat(q, Test(_)) == q[CHOOSE i \in 1..Len(q) : Test(q[i]) /\ \A j \in 1..(i-1) : ~Test(q[j])]

\* faulty variant: phase 1 preserves nothing
KeepsNothing(participants, i, free_ids) == FALSE

\* Phase 1, lines 190-191: the participant's current id is one of the free ids
Keeps(participants, i, free_ids) ==
    LET current_sub == Lower(participants[i].subscription_id)
    IN current_sub # 0 /\ current_sub \in {Lower(sid) : sid \in Range(free_ids)}

\* faulty variant: a preserved participant is handed the first free id
FirstFreeId(free_ids, current_sub) == free_ids[1]

\* Phase 1, lines 192-194: next(sid for sid in free_ids if sid.lower() ==
\* current_sub), the free id as the inventory spells it
PreservedId(free_ids, current_sub) ==
    FirstThat(free_ids, LAMBDA sid : Lower(sid) = current_sub)

\* lines 177-181: the available ids nobody else holds according to in_use_map
FreeIdsOf(available, in_use_map, workshop_id) ==
    SelectSeq(available,
              LAMBDA sid : sid \notin DOMAIN in_use_map \/ in_use_map[sid] = workshop_id)

\* faulty variant: the pool of phase 2 is the whole free list
WholeFreeList(free_ids, used_ids) == free_ids

\* Phase 2, line 204: the free ids that phase 1 did not use
PoolOf(free_ids, used_ids) ==
    SelectSeq(free_ids, LAMBDA sid : Lower(sid) \notin used_ids)

\* faulty variant: phase 3 hands the pool out from its end
FillFromEnd(pool, idx) == pool[Len(pool) + 1 - idx]

\* Phase 3, line 216: assigned_sub = pool[idx], idx counting from the first
\* participant that needs an assignment
FillWith(pool, idx) == pool[idx]

\* faulty variant: everybody that needs an assignment is reported
ReplacesAll(participants, i) == TRUE

\* lines 199-200: `if current_sub:` the alias goes to replaced
Replaces(participants, i) == Lower(participants[i].subscription_id) # 0

\* assign_subscriptions after get_available_subscriptions returned `av`
AssignFrom(participants, workshop_id, av) ==
    LET n == Len(participants)
        free_ids == FreeIdsOf(av.subscriptions, av.in_use_map, workshop_id)
        Kept(i) == Keeps(participants, i, free_ids)
        Preserved(i) == PreservedId(free_ids, Lower(participants[i].subscription_id))
        used_ids == {Lower(Preserved(i)) : i \in {j \in 1..n : Kept(j)}}
        needs_assignment == SelectSeq([i \in 1..n |-> i], LAMBDA i : ~Kept(i))
        replaced == SelectSeq(needs_assignment, LAMBDA i : Replaces(participants, i))
        pool == PoolOf(free_ids, used_ids)
        IdxOf(i) == CHOOSE k \in 1..Len(needs_assignment) : needs_assignment[k] = i
    IN IF av.subscriptions = <<>>
       THEN [error |-> "ServiceUnavailable"]
       ELSE IF Len(needs_assignment) > Len(pool)
       THEN [error |-> "InsufficientSubscriptions",
             required |-> Len(needs_assignment), available |-> Len(pool)]
       ELSE [error |-> "none",
             participants |->
                 [i \in 1..n |->
                     [participants[i] EXCEPT
                         !.subscription_id = IF Kept(i) THEN Preserved(i)
                                             ELSE FillWith(pool, IdxOf(i))]],
             replaced_aliases |-> [k \in 1..Len(replaced) |-> participants[replaced[k]].alias],
             pruned_ids |-> av.pruned_ids,
             from_cache |-> av.from_cache]

\* assign_subscriptions(participants, workshop_id): the result (or the error
\* raised), with the cache and the settings row as the call leaves them and
\* the free_ids list the call worked on
AssignSubscriptions(participants, workshop_id) ==
    LET av == GetAvailableSubscriptions(FALSE)
    IN [result |-> IF av.error # "none" THEN [error |-> av.error]
                   ELSE AssignFrom(participants, workshop_id, av),
        free |-> IF av.error # "none" THEN <<>>
                 ELSE FreeIdsOf(av.subscriptions, av.in_use_map, workshop_id),
        cache |-> av.cache, age |-> av.age, row |-> av.row]

\* ------------------------------------------------ lifecycle specification
NoCall == [phase |-> "none"]
AllocIdle ==
    /\ inventory = <<>>
    /\ azure_cache = <<>>
    /\ cache_age = 0
    /\ portal = [allow_list |-> <<>>, deny_list |-> <<>>]
    /\ held = {}
    /\ call = NoCall
    /\ recall = NoCall

CostIdle == cost = NoCall

LifecycleIdle ==
    /\ ws = NoWorkshop
    /\ pw = FALSE
    /\ fails = {}
    /\ az_users = {}
    /\ az_rgs = {}
    /\ cw = CwIdle
    /\ dw = DwIdle
    /\ r1 = R1Idle
    /\ ra = RaIdle
    /\ su = SuIdle
    /\ cl = ClIdle

\* handlers interleave at their awaits, two in flight at most
Init == LifecycleIdle /\ AllocIdle /\ CostIdle /\ limit = 2 /\ calls = MaxCalls /\ two_columns = FALSE

\* one handler at a time, each run to its end
InitSeq == LifecycleIdle /\ AllocIdle /\ CostIdle /\ limit = 1 /\ calls = MaxCalls /\ two_columns = FALSE

Next ==
    \/ CreateStart \/ CreateUsers \/ CreateRGs \/ CreateSetup
    \/ CreateSaveMetadata \/ CreateSavePasswords
    \/ RollbackRGs \/ RollbackUsers \/ CreateReturn
    \/ DeleteStart \/ DeleteRGs \/ DeleteUsers \/ DeleteFinish \/ DeleteReturn
    \/ RetryStart \/ RetryExec \/ RetryFinalize \/ RetryReturn
    \/ RetryAllStart \/ RetryAllStep \/ RetryAllFinalize \/ RetryAllReturn
    \/ SurveyStart \/ SurveyWrite
    \/ CleanupStart \/ CleanupRGs \/ CleanupUsers \/ CleanupFinish

vars == <<lifecycleVars, allocVars, cost>>

Spec == Init /\ [][Next]_vars
SpecSeq == InitSeq /\ [][Next]_vars

\* ------------------------------------- one workshop, from creation to removal
\* a workshop is created and then removed by request or by the timer, which
\* also runs on days on which nothing has expired; one handler at a time
InitWorkshop ==
    LifecycleIdle /\ AllocIdle /\ CostIdle /\ limit = 1 /\ calls = MaxCalls /\ two_columns = FALSE

NextWorkshop ==
    \/ CreateStart \/ CreateUsers \/ CreateRGs \/ CreateSetup
    \/ CreateSaveMetadata \/ CreateSavePasswords
    \/ RollbackRGs \/ RollbackUsers \/ CreateReturn
    \/ DeleteStart \/ DeleteRGs \/ DeleteUsers \/ DeleteFinish \/ DeleteReturn
    \/ CleanupStart \/ CleanupSkip \/ CleanupRGs \/ CleanupUsers \/ CleanupFinish

SpecWorkshop == InitWorkshop /\ [][NextWorkshop]_vars

\* ------------------------------------------------ allocator specification
\* the workshop the call is made for
ThisWorkshop == "ws-1"

\* what a participant of the call may carry as subscription_id: nothing, an
\* id, or the first id past the deployment subscription in upper case
InputSubs == {0} \cup SubIds \cup {Upper(DeploymentSub + 1)}

\* the participants argument: one to MaxParticipants rows of the CSV
ParticipantLists ==
    UNION {[1..n -> InputSubs] : n \in 1..MaxParticipants}
Participants(subs) == [i \in 1..Len(subs) |-> [alias |-> i, subscription_id |-> subs[i]]]

Inventories == {SortedSeq(S) : S \in SUBSET SubIds}

\* the service was just constructed (empty cache) or has fetched the
\* inventory before; the settings row and the other workshops are given
InitAlloc ==
    /\ LifecycleIdle /\ CostIdle /\ limit = 0 /\ calls = 0 /\ two_columns = FALSE
    /\ inventory \in Inventories
    /\ azure_cache \in {<<>>, inventory}
    /\ cache_age = 0
    /\ portal \in [allow_list : {<<>>, <<2, 3>>}, deny_list : {<<>>, <<3>>}]
    /\ held \in {{}, {2}}
    /\ \E subs \in ParticipantLists :
          call = [phase |-> "input", participants |-> Participants(subs),
                  workshop_id |-> ThisWorkshop]
    /\ recall = NoCall

\* the tenant gains or loses a subscription while the cache holds the list
\* fetched before
ChangeInventory ==
    /\ call.phase = "input"
    /\ azure_cache = inventory
    /\ \E x \in SubIds :
          inventory' = SortedSeq(IF x \in Range(inventory) THEN Range(inventory) \ {x}
                                 ELSE Range(inventory) \cup {x})
    /\ UNCHANGED <<azure_cache, cache_age, portal, held, call, recall, lifecycleVars, cost>>

\* time passes
Tick ==
    /\ azure_cache # <<>>
    /\ cache_age < CacheTtl
    /\ recall.phase = "none"
    /\ cache_age' = cache_age + 1
    /\ UNCHANGED <<inventory, azure_cache, portal, held, call, recall, lifecycleVars, cost>>

\* assign_subscriptions(participants, workshop_id); `seen` keeps the
\* subscription list the call was served (the cache as the call leaves it)
\* and `free` its free_ids
Assign ==
    /\ call.phase = "input"
    /\ LET r == AssignSubscriptions(call.participants, call.workshop_id)
       IN /\ call' = [call EXCEPT !.phase = "done"]
                        @@ [result |-> r.result, seen |-> r.cache, free |-> r.free]
          /\ azure_cache' = r.cache
          /\ cache_age' = r.age
          /\ portal' = r.row
    /\ UNCHANGED <<inventory, held, recall, lifecycleVars, cost>>

\* the call that follows it: with the same participants again, or with the
\* participants the first call returned
AssignAgain ==
    /\ call.phase = "done"
    /\ recall.phase = "none"
    /\ \E mode \in {"same", "fed"} :
          /\ mode = "fed" => call.result.error = "none"
          /\ LET ps == IF mode = "fed" THEN call.result.participants
                       ELSE call.participants
                 r == AssignSubscriptions(ps, call.workshop_id)
             IN /\ recall' = [phase |-> "done", mode |-> mode, participants |-> ps,
                              workshop_id |-> call.workshop_id, result |-> r.result,
                              seen |-> r.cache, free |-> r.free]
                /\ azure_cache' = r.cache
                /\ cache_age' = r.age
                /\ portal' = r.row
    /\ UNCHANGED <<inventory, held, call, lifecycleVars, cost>>

NextAlloc == ChangeInventory \/ Tick \/ Assign \/ AssignAgain

SpecAlloc == InitAlloc /\ [][NextAlloc]_vars

\* ------------------------------------------- the admin subscription calls
\* lists as the settings row holds them (written by _save_settings) and as an
\* administrator submits them (any spelling, repeats, empty entries)
StoredAllowLists == {<<>>, <<2, 3>>, <<3>>}
StoredDenyLists == {<<>>, <<3>>, <<DeploymentSub>>}
SubmittedAllowLists == {<<>>, <<2>>, <<Upper(2), DeploymentSub>>, <<3, 0, 3>>}
SubmittedDenyLists == {<<>>, <<3>>, <<Upper(DeploymentSub), 2>>}

SettingsRequests ==
    {[phase |-> "input", op |-> "get", force_refresh |-> b] : b \in BOOLEAN}
    \cup {[phase |-> "input", op |-> "update", allow_list |-> a, deny_list |-> d] :
              a \in SubmittedAllowLists, d \in SubmittedDenyLists}

\* one request to GET or PUT /admin/subscriptions, made of a service that
\* was just constructed or has fetched the inventory before
InitSettings ==
    /\ LifecycleIdle /\ CostIdle /\ limit = 0 /\ calls = 0 /\ two_columns = FALSE
    /\ inventory \in Inventories
    /\ azure_cache \in {<<>>, inventory}
    /\ cache_age = 0
    /\ portal \in [allow_list : StoredAllowLists, deny_list : StoredDenyLists]
    /\ held = {}
    /\ call \in SettingsRequests
    /\ recall = NoCall

\* what the call found when it started
Before == [cache |-> azure_cache, age |-> cache_age, inventory |-> inventory, row |-> portal]

GetAvailable ==
    /\ call.phase = "input" /\ call.op = "get"
    /\ LET av == GetAvailableSubscriptions(call.force_refresh)
       IN /\ call' = [phase |-> "done", op |-> "get", force_refresh |-> call.force_refresh,
                      before |-> Before, result |-> av]
          /\ azure_cache' = av.cache
          /\ cache_age' = av.age
          /\ portal' = av.row
    /\ UNCHANGED <<inventory, held, recall, lifecycleVars, cost>>

UpdateSettings ==
    /\ call.phase = "input" /\ call.op = "update"
    /\ LET r == UpdateSubscriptionSettings(call.allow_list, call.deny_list)
       IN /\ call' = [phase |-> "done", op |-> "update", allow_list |-> call.allow_list,
                      deny_list |-> call.deny_list, before |-> Before, result |-> r]
          /\ azure_cache' = r.cache
          /\ cache_age' = r.age
          /\ portal' = r.row
    /\ UNCHANGED <<inventory, held, recall, lifecycleVars, cost>>

NextSettings == ChangeInventory \/ Tick \/ GetAvailable \/ UpdateSettings

SpecSettings == InitSettings /\ [][NextSettings]_vars

\* ------------------------------- two get_available_subscriptions in a row
\* a second GET /admin/subscriptions after the first one returned; nobody
\* changes the inventory or the settings row in between
GetAvailableAgain ==
    /\ call.phase = "done" /\ call.op = "get"
    /\ recall.phase = "none"
    /\ \E force_refresh \in BOOLEAN :
          LET av == GetAvailableSubscriptions(force_refresh)
          IN /\ recall' = [phase |-> "done", op |-> "get", force_refresh |-> force_refresh,
                           before |-> Before, result |-> av]
             /\ azure_cache' = av.cache
             /\ cache_age' = av.age
             /\ portal' = av.row
    /\ UNCHANGED <<inventory, held, call, lifecycleVars, cost>>

InitSettingsTwice == InitSettings /\ call.op = "get"

NextSettingsTwice == ChangeInventory \/ Tick \/ GetAvailable \/ GetAvailableAgain

SpecSettingsTwice == InitSettingsTwice /\ [][NextSettingsTwice]_vars

\* --------------------------------------------- create_workshop on its own
\* one create_workshop request whose CSV may name subscriptions, in a tenant
\* with some subscription inventory; the SubscriptionService was just built
InitCreate ==
    /\ LifecycleIdle /\ CostIdle /\ limit = 1 /\ calls = 1 /\ two_columns = TRUE
    /\ inventory \in Inventories
    /\ azure_cache = <<>>
    /\ cache_age = 0
    /\ portal = [allow_list |-> <<>>, deny_list |-> <<>>]
    /\ held = {}
    /\ call = NoCall
    /\ recall = NoCall

NextCreate ==
    \/ CreateStart \/ CreateUsers \/ CreateRGs \/ CreateSetup
    \/ CreateSaveMetadata \/ CreateSavePasswords
    \/ RollbackRGs \/ RollbackUsers \/ CreateReturn

SpecCreate == InitCreate /\ [][NextCreate]_vars

\* --------------------------------------- a workshop whose deletion failed
\* the store and the cloud as a delete_workshop call leaves them in which the
\* deletions of the resource groups `rgs` and of the users `users` succeeded
\* and at least one other deletion failed; create_workshop returned before
AfterFailedDelete(P, rgs, users) ==
    LET rs == FailedResources(P, [a \in Aliases |-> a \in rgs],
                              [a \in Aliases |-> a \in users])
    IN /\ rs # {}
       /\ Cardinality(rs) <= Cardinality(FailIds)
       /\ ws = SaveWorkshop([exists |-> TRUE, status |-> "failed", participants |-> P,
                             survey |-> 0, end_date |-> 1,
                             subs |-> ParticipantSubs(P, [a \in Aliases |-> DefaultSub])])
       /\ pw = TRUE
       /\ fails = NewFailures(rs, FailIds)
       /\ az_users = P \ users
       /\ az_rgs = P \ rgs
       /\ cw = [CwIdle EXCEPT !.pc = "gone"]
       /\ dw = DwIdle /\ r1 = R1Idle /\ ra = RaIdle /\ su = SuIdle /\ cl = ClIdle

\* two more requests on such a workshop, one after the other
InitRetry ==
    /\ \E P \in (SUBSET Aliases) \ {{}} : \E rgs \in SUBSET P, users \in SUBSET P :
          AfterFailedDelete(P, rgs, users)
    /\ AllocIdle /\ CostIdle /\ limit = 1 /\ calls = 2 /\ two_columns = FALSE

\* the two requests may be in flight together
InitRetryRace ==
    /\ \E P \in (SUBSET Aliases) \ {{}} : \E rgs \in SUBSET P, users \in SUBSET P :
          AfterFailedDelete(P, rgs, users)
    /\ AllocIdle /\ CostIdle /\ limit = 2 /\ calls = 2 /\ two_columns = FALSE

NextRetry ==
    \/ DeleteStart \/ DeleteRGs \/ DeleteUsers \/ DeleteFinish \/ DeleteReturn
    \/ RetryStart \/ RetryExec \/ RetryFinalize \/ RetryReturn
    \/ RetryAllStart \/ RetryAllStep \/ RetryAllFinalize \/ RetryAllReturn

SpecRetry == InitRetry /\ [][NextRetry]_vars
SpecRetryRace == InitRetryRace /\ [][NextRetry]_vars

\* ------------------------------------------------------- the cost service
\* scopes of one get_workshop_total_cost call, and rows of one query response
MaxScopes == 3
MaxRows == 2

\* amounts are counted in thousandths of the currency unit
RowAmounts == {125, 2000}
Currencies == {"USD", "KRW"}

\* round(x, 2): to the nearest hundredth, a tie going to the even hundredth
Round2(m) ==
    LET q == m \div 10
        r == m % 10
    IN IF r > 5 \/ (r = 5 /\ q % 2 = 1) THEN (q + 1) * 10 ELSE q * 10

RECURSIVE SumRows(_)
SumRows(rows) == IF rows = <<>> THEN 0 ELSE Head(rows) + SumRows(Tail(rows))

\* what cost_client.query.usage does for one scope: it raises, or answers
\* with daily rows that all carry the currency of the subscription
QueryOutcomes ==
    {[raises |-> TRUE, error |-> "throttled"]}
    \cup {[raises |-> FALSE, rows |-> <<>>, currency |-> "USD"]}
    \cup {[raises |-> FALSE, rows |-> rows, currency |-> c] :
             rows \in UNION {[1..n -> RowAmounts] : n \in 1..MaxRows}, c \in Currencies}

\* get_resource_group_cost: the rows are summed and rounded; every exception
\* of the query is caught here and answered with a zero total and 'error'
GetResourceGroupCost(resource_group_name, q) ==
    IF q.raises
    THEN [resource_group |-> resource_group_name, total_cost |-> 0,
          currency |-> "USD", error |-> q.error]
    ELSE [resource_group |-> resource_group_name,
          total_cost |-> Round2(SumRows(q.rows)),
          currency |-> IF q.rows # <<>> THEN q.currency ELSE "USD"]

\* isinstance(result, Exception) for a value gathered with return_exceptions
IsException(result) == "exception" \in DOMAIN result

\* the entry the loop appends for scope i
BreakdownEntry(p, result) ==
    IF IsException(result)
    THEN [resource_group |-> p.resource_group, subscription_id |-> p.subscription_id,
          cost |-> 0, error |-> result.exception]
    ELSE [resource_group |-> result.resource_group,
          subscription_id |-> p.subscription_id, cost |-> result.total_cost]

\* the loop over the gathered results, from scope i on
RECURSIVE Aggregate(_, _, _, _)
Aggregate(participants, results, i, acc) ==
    IF i > Len(results) THEN acc
    ELSE LET result == results[i]
             entry == BreakdownEntry(participants[i], result)
         IN Aggregate(participants, results, i + 1,
              IF IsException(result)
              THEN [acc EXCEPT !.breakdown = Append(@, entry)]
              ELSE [total_cost |-> acc.total_cost + result.total_cost,
                    currency |-> result.currency,
                    breakdown |-> Append(acc.breakdown, entry)])

GetWorkshopTotalCost(participants, queries) ==
    LET results == [i \in 1..Len(participants) |->
                       GetResourceGroupCost(participants[i].resource_group, queries[i])]
        acc == Aggregate(participants, results, 1,
                         [total_cost |-> 0, currency |-> "USD", breakdown |-> <<>>])
    IN [total_cost |-> Round2(acc.total_cost), currency |-> acc.currency,
        resource_groups_count |-> Len(participants), breakdown |-> acc.breakdown]

\* the scopes of a workshop: one resource group per participant, spread over
\* the subscriptions
CostSpecs(n) ==
    [i \in 1..n |-> [resource_group |-> i, subscription_id |-> ((i - 1) % MaxSubs) + 1]]

InitCost ==
    /\ LifecycleIdle /\ AllocIdle /\ limit = 0 /\ calls = 0 /\ two_columns = FALSE
    /\ \E n \in 0..MaxScopes : \E queries \in [1..n -> QueryOutcomes] :
          cost = [phase |-> "input", participants |-> CostSpecs(n), queries |-> queries]

TotalCost ==
    /\ cost.phase = "input"
    /\ cost' = [phase |-> "done", participants |-> cost.participants,
                queries |-> cost.queries,
                result |-> GetWorkshopTotalCost(cost.participants, cost.queries)]
    /\ UNCHANGED <<lifecycleVars, allocVars>>

NextCost == TotalCost

SpecCost == InitCost /\ [][NextCost]_vars

\* ------------------------------------------------------------ properties
\* no handler is in flight
Quiescent == InFlight = 0

\* C1: when create_workshop raises because the metadata write failed, the
\* rollback has attempted the deletion of every created resource group and
\* of every created user, also when a resource group deletion failed.
C1_RollbackAttemptsAll ==
    (cw.pc = "raised" /\ cw.error = "save_metadata")
        => /\ cw.rb_rgs = cw.created_rgs
           /\ cw.rb_users = cw.created_users
C1_Witness ==
    /\ cw.pc = "raised" /\ cw.error = "save_metadata"
    /\ Cardinality(cw.created_users) = 2 /\ Cardinality(cw.created_rgs) = 2
    /\ cw.rb_failed # {}
    /\ cw.rb_users = cw.created_users

\* C2: whenever create_workshop has raised, the store holds no workshop
\* record of that workshop id.
C2_NoRecordAfterRaise == cw.pc = "raised" => ~ws.exists
C2_Witness ==
    /\ cw.pc = "raised" /\ cw.error = "save_passwords"
    /\ ws.exists /\ cw.rb_users = cw.created_users

\* C3: when delete_workshop returns, the call has saved exactly one failure
\* record per resource group and per user whose bulk-delete status is not
\* True; with at least one the row is kept with status failed, with none the
\* row is gone.
C3_OneRecordPerFailure ==
    dw.pc = "returned" =>
        LET C3_NewRecords == {f \in fails : f.id \in dw.new_ids}
            P == dw.metadata.participants
            badRg == {a \in P : ~dw.rg_status[a]}
            badUser == {a \in P : ~dw.user_status[a]}
            n == Cardinality(badRg) + Cardinality(badUser)
        IN /\ Cardinality(C3_NewRecords) = n
           /\ Cardinality(dw.new_ids) = n
           /\ \A a \in badRg :
                 Cardinality({f \in C3_NewRecords :
                     f.resource_type = "resource_group" /\ f.alias = a}) = 1
           /\ \A a \in badUser :
                 Cardinality({f \in C3_NewRecords :
                     f.resource_type = "user" /\ f.alias = a}) = 1
           /\ n >= 1 => (ws.exists /\ ws.status = "failed" /\ dw.result = "partial")
           /\ n = 0 => (~ws.exists /\ dw.result = "deleted")
C3_Witness ==
    /\ dw.pc = "returned"
    /\ Cardinality(dw.new_ids) >= 2
    /\ \E a \in dw.metadata.participants : ~dw.rg_status[a] /\ dw.user_status[a]
    /\ ws.status = "failed"

\* C4: a successful retry_one deletes the workshop record exactly when it
\* removed the last failure record, and once retries have removed every
\* failure record of a failed workshop the workshop record is gone.
C4_FinalizedWhenResolved ==
    /\ (r1.pc = "returned" /\ r1.success) =>
          /\ r1.finalized <=> r1.last
          /\ r1.finalized => ~ws.exists
          /\ ~r1.finalized => (ws.exists /\ ws.status = "failed")
    /\ (ra.pc = "returned" /\ fails = {}) => (ra.finalized /\ ~ws.exists)
    /\ (Quiescent /\ fails = {}) => ws.status # "failed"
C4_Witness ==
    /\ r1.pc = "returned" /\ r1.success /\ r1.last /\ r1.finalized
    /\ r1.failure.error_message = "delete_failed"
    /\ ~ws.exists

\* C5: with no handler in flight, a stored workshop has status failed if and
\* only if the store holds at least one failure record of the workshop.
C5_FailedIffFailures ==
    (Quiescent /\ ws.exists) => (ws.status = "failed" <=> fails # {})
C5_Witness ==
    /\ Quiescent /\ ws.exists /\ ws.status = "active" /\ ws.survey = 1
    /\ fails # {}

\* C6: the store never holds two failure records of the same resource
\* (resource_type, resource_name) of the workshop.
C6_OneRecordPerResource ==
    \A f, g \in fails :
        (f.resource_type = g.resource_type /\ f.alias = g.alias) => f = g
C6_Witness ==
    /\ dw.pc = "returned"
    /\ \E f, g \in fails :
          /\ f.id # g.id /\ f.resource_type = g.resource_type /\ f.alias = g.alias
          /\ f.error_message = "delete_failed" /\ g.error_message = "delete_failed"

SubsOf(ps) == [i \in 1..Len(ps) |-> Lower(ps[i].subscription_id)]

\* C8: a successful assign_subscriptions call gives its participants
\* pairwise distinct subscription ids.
C8_DistinctSubscriptions ==
    (call.phase = "done" /\ call.result.error = "none") =>
        \A i, j \in 1..Len(call.result.participants) :
            i # j => SubsOf(call.result.participants)[i] # SubsOf(call.result.participants)[j]
C8_Witness ==
    /\ call.phase = "done" /\ call.result.error = "none"
    /\ Len(call.participants) = 2
    /\ call.participants[1].subscription_id = 2
    /\ call.participants[2].subscription_id = 2
    /\ SubsOf(call.result.participants) = <<2, 2>>

\* C9: a successful assign_subscriptions call gives no participant a
\* subscription held by a participant of another persisted workshop.
C9_NoSubscriptionOfOtherWorkshop ==
    (call.phase = "done" /\ call.result.error = "none") =>
        \A i \in 1..Len(call.result.participants) :
            SubsOf(call.result.participants)[i] \notin held
C9_Witness ==
    /\ call.phase = "done" /\ call.result.error = "none"
    /\ held = {2}
    /\ call.participants[1].subscription_id = 0
    /\ SubsOf(call.result.participants)[1] = 2

\* what C10 asks of the call that follows a successful one
C10_SameAssignments ==
    call.result.error = "none" =>
        /\ recall.result.error = "none"
        /\ SubsOf(recall.result.participants) = SubsOf(call.result.participants)
        /\ recall.mode = "fed" => recall.result.replaced_aliases = <<>>

\* C10 as stated: a second assign_subscriptions call for the same workshop,
\* with the same participants or with the participants the first call
\* returned, while inventory, settings and in-use state stay as they are,
\* gives the same subscription ids (and, fed the result, replaces nobody).
C10_Idempotent == recall.phase = "done" => C10_SameAssignments

\* C10, amended: the same holds when the second call is served the same
\* subscription list as the first one (the cached list did not expire
\* between the calls, or it was the tenant's current list).
C10_IdempotentOnSameList ==
    (recall.phase = "done" /\ recall.seen = call.seen) => C10_SameAssignments
C10_Witness ==
    /\ recall.phase = "done" /\ recall.mode = "fed" /\ recall.seen = call.seen
    /\ Len(call.participants) = 2
    /\ call.result.replaced_aliases # <<>>
    /\ \E i \in 1..2 : call.participants[i].subscription_id = 0
    /\ recall.result.replaced_aliases = <<>>
    /\ SubsOf(recall.result.participants) = SubsOf(call.result.participants)
\* the free pool of the first call (lowercased ids) and what its
\* participants carried (lowercased)
FreePool == {Lower(sid) : sid \in Range(call.free)}
Carried(i) == Lower(call.participants[i].subscription_id)
\* the participants whose carried id is in the free pool, and the others
Holders == {i \in 1..Len(call.participants) : Carried(i) # 0 /\ Carried(i) \in FreePool}
Needing == (1..Len(call.participants)) \ Holders

FreeSubscriptions ==
    {x \in Range(inventory) : x # DeploymentSub /\ x \notin Range(portal.deny_list)
                               /\ (portal.allow_list # <<>> => x \in Range(portal.allow_list))}

\* C12: a workshop record persisted by create_workshop (status active) gives
\* its participants pairwise distinct subscription ids whenever there are
\* at least as many free subscriptions as participants.
C12_DistinctSubscriptionsPersisted ==
    (cw.pc = "returned" /\ Cardinality(FreeSubscriptions) >= Cardinality(cw.participants)) =>
        /\ ws.status = "active"
        /\ \A a, b \in ws.participants : a # b => ws.subs[a] # ws.subs[b]
C12_Witness ==
    /\ cw.pc = "returned" /\ ws.status = "active"
    /\ Cardinality(cw.participants) = 2 /\ Cardinality(ws.participants) = 2
    /\ Cardinality(FreeSubscriptions) = 2
    /\ \A a \in ws.participants : ws.subs[a] = DefaultSub
    /\ call = NoCall /\ azure_cache = <<>>
\* C13: a retry_one whose delete call raises leaves the failure record in
\* the store with retry_count one higher and the new error message, changes
\* neither the workshop record nor any other failure record, and returns
\* "Retry failed".
C13_FailedRetryKeepsRecord ==
    [][(r1.pc = "delete" /\ r1'.pc = "returned") =>
          \E f \in fails :
             /\ f.id = r1.failure.id
             /\ fails' = (fails \ {f})
                           \cup {[f EXCEPT !.retry_count = f.retry_count + 1,
                                           !.error_message = "retry_error"]}
             /\ Cardinality(fails') = Cardinality(fails)
             /\ ws' = ws /\ pw' = pw
             /\ r1'.result = "Retry failed"]_vars
C13_Witness ==
    /\ r1.pc = "returned" /\ r1.result = "Retry failed"
    /\ r1.failure.error_message = "delete_failed"
    /\ Cardinality(fails) >= 2
    /\ ws.exists /\ ws.status = "failed"
    /\ \E f \in fails : /\ f.id = r1.failure.id
                        /\ f.retry_count = r1.failure.retry_count + 1
                        /\ f.error_message = "retry_error"
\* C14: when retry_all returns, every failure record listed at its start
\* was retried once (its row is gone, or is kept with retry_count one higher),
\* also the ones after a failed retry; succeeded + failed is the number of
\* those records; the workshop record is deleted exactly when no failure
\* record remains.
C14_RetryAllAttemptsEach ==
    ra.pc = "returned" =>
        LET gone == {f \in ra.all : ~\E g \in fails : g.id = f.id}
            kept == {f \in ra.all :
                        \E g \in fails : /\ g.id = f.id
                                         /\ g.retry_count = f.retry_count + 1
                                         /\ g.error_message = "retry_error"}
        IN /\ gone \cup kept = ra.all
           /\ ra.succeeded = Cardinality(gone)
           /\ ra.failed = Cardinality(kept)
           /\ ra.succeeded + ra.failed = Cardinality(ra.all)
           /\ ra.finalized <=> fails = {}
           /\ ws.exists <=> fails # {}
C14_Witness ==
    /\ ra.pc = "returned"
    /\ ra.succeeded = 1 /\ ra.failed = 1
    /\ \E f, g \in ra.all :
          /\ f.id < g.id
          /\ \E h \in fails : h.id = f.id /\ h.retry_count = 1
          /\ ~\E h \in fails : h.id = g.id
    /\ ws.exists /\ ~ra.finalized


\* ---- C15
\* scopes of the call whose query raised, and the others
FailedScopes == {i \in 1..Len(cost.queries) : cost.queries[i].raises}
SucceededScopes == {i \in 1..Len(cost.queries) : ~cost.queries[i].raises}

RECURSIVE SumOver(_, _)
SumOver(f, S) ==
    IF S = {} THEN 0
    ELSE LET i == CHOOSE j \in S : TRUE IN f[i] + SumOver(f, S \ {i})

\* the totals get_resource_group_cost reports for the scopes
ScopeTotals ==
    [i \in 1..Len(cost.queries) |->
        IF cost.queries[i].raises THEN 0 ELSE Round2(SumRows(cost.queries[i].rows))]

\* C15: get_workshop_total_cost returns one breakdown entry per scope; a
\* scope whose query failed has cost 0 and its error set; the call returns a
\* result and no error; total_cost is the sum of the successful scopes' totals
C15_BreakdownCarriesErrors ==
    cost.phase = "done" =>
        /\ Len(cost.result.breakdown) = Len(cost.participants)
        /\ "error" \notin DOMAIN cost.result
        /\ \A i \in FailedScopes :
              /\ cost.result.breakdown[i].cost = 0
              /\ "error" \in DOMAIN cost.result.breakdown[i]
        /\ cost.result.total_cost = SumOver(ScopeTotals, SucceededScopes)

\* three scopes, one query raised, and the entry of that scope has cost 0
\* but no error
C15_Witness ==
    /\ cost.phase = "done"
    /\ Len(cost.participants) = 3
    /\ Cardinality(FailedScopes) = 1
    /\ \A i \in FailedScopes :
          /\ cost.result.breakdown[i].cost = 0
          /\ "error" \notin DOMAIN cost.result.breakdown[i]
    /\ cost.result.total_cost = SumOver(ScopeTotals, SucceededScopes)
    /\ cost.result.total_cost > 0

\* ---- C16
\* what the handler has touched: the store and the cloud
Outside == <<ws, pw, fails, az_users, az_rgs>>

\* C16: when the input validation fails, create_workshop raises at once: the
\* step that validates touches neither the store nor the cloud, no user or
\* resource group is created, no rollback deletion is issued, and all that
\* follows is the exception reaching the caller
C16_InvalidInputFailsFast ==
    [][/\ (cw.pc = "idle" /\ cw'.error = "invalid_input") =>
             /\ cw'.pc = "raised"
             /\ cw'.created_users = {} /\ cw'.created_rgs = {}
             /\ cw'.rb_rgs = {} /\ cw'.rb_users = {} /\ ~cw'.saved
             /\ UNCHANGED Outside
       /\ cw.error = "invalid_input" =>
             /\ cw.pc = "raised"
             /\ cw'.pc = "gone"
             /\ UNCHANGED Outside]_vars

\* a request with invalid input has raised
C16_Witness == cw.pc = "raised" /\ cw.error = "invalid_input"

\* ---- C17
\* C17: when the bulk creation creates no user, create_workshop raises, no
\* resource group is created and no record is persisted; when it creates
\* some, the pipeline goes on with exactly the created users, and neither a
\* resource group nor a persisted participant belongs to a dropped alias
C17_ContinuesWithCreatedUsers ==
    [][/\ (cw.pc = "users" /\ az_users' = az_users) =>
             /\ cw'.pc = "raised" /\ cw'.error = "no_users"
             /\ cw'.created_rgs = {} /\ ~cw'.saved
             /\ UNCHANGED <<ws, pw, az_rgs>>
       /\ (cw.pc = "users" /\ az_users' # az_users) =>
             /\ cw'.pc = "rgs"
             /\ cw'.created_users = az_users' \ az_users
       /\ cw.error = "no_users" =>
             /\ cw'.pc = "gone"
             /\ UNCHANGED Outside
       /\ cw'.created_rgs \subseteq cw'.created_users
       /\ cw'.successful \subseteq cw'.created_users
       /\ (cw.pc = "save_metadata" /\ cw'.saved) =>
             ws'.participants \subseteq cw.created_users]_vars

\* a workshop was persisted although the account of one alias was not created
C17_Witness ==
    /\ cw.saved
    /\ cw.created_users # cw.participants
    /\ ws.participants = cw.created_users

\* no account was created and the request has raised
C17_WitnessNoUsers ==
    cw.pc = "raised" /\ cw.error = "no_users" /\ az_users = {} /\ az_rgs = {}

\* ---- C18
\* the call returned an assignment
Assigned == call.phase = "done" /\ call.result.error = "none"

\* C18: a participant whose incoming subscription id is in the free pool is
\* returned with that same id (with the very same spelling when the incoming
\* id is spelled as the pool spells it), and no participant that needed a new
\* assignment is given that id
C18_ValidAssignmentKept ==
    Assigned =>
        \A i \in Holders :
            /\ SubsOf(call.result.participants)[i] = Carried(i)
            /\ call.participants[i].subscription_id \in Range(call.free) =>
                  call.result.participants[i].subscription_id
                      = call.participants[i].subscription_id
            /\ \A j \in Needing : SubsOf(call.result.participants)[j] # Carried(i)

\* the second participant keeps id 2 of the pool <<2, 3>> while the first,
\* who carried nothing, is given 3
C18_Witness ==
    /\ Assigned
    /\ Len(call.participants) = 2
    /\ call.free = <<2, 3>>
    /\ call.participants[1].subscription_id = 0
    /\ call.participants[2].subscription_id = 2
    /\ SubsOf(call.result.participants) = <<3, 2>>

\* ---- C19
\* the participants that need an assignment, in input order
NeedingInOrder == SelectSeq([i \in 1..Len(call.participants) |-> i], LAMBDA i : i \in Needing)

\* the free-pool members no preserved assignment consumed, in the order of
\* the inventory listing the call worked on
UnusedInOrder ==
    SelectSeq(call.seen,
              LAMBDA sid : /\ Lower(sid) \in FreePool
                           /\ Lower(sid) \notin {Carried(i) : i \in Holders})

\* C19: the k-th participant without a valid existing assignment is given
\* the k-th free-pool member, in inventory order, that no preserved
\* assignment consumed
C19_FillsInInputOrder ==
    Assigned =>
        \A k \in 1..Len(NeedingInOrder) :
            /\ k <= Len(UnusedInOrder)
            /\ call.result.participants[NeedingInOrder[k]].subscription_id = UnusedInOrder[k]

\* two participants need an assignment, the first carrying a stale id, and
\* they are given 2 and 3 of the inventory in that order
C19_Witness ==
    /\ Assigned
    /\ Len(NeedingInOrder) = 2
    /\ Carried(1) # 0
    /\ UnusedInOrder = <<2, 3>>
    /\ SubsOf(call.result.participants) = <<2, 3>>

\* ---- C20
\* the aliases in a list
AliasesOf(q) == {q[k] : k \in 1..Len(q)}

\* C20: replaced_aliases holds exactly the aliases of the participants whose
\* incoming id was non-empty and not in the free pool, each once; those with
\* no incoming id and those whose id was preserved are not listed
C20_ReplacedAliasesExact ==
    Assigned =>
        /\ AliasesOf(call.result.replaced_aliases)
              = {call.participants[i].alias : i \in {j \in Needing : Carried(j) # 0}}
        /\ Len(call.result.replaced_aliases)
              = Cardinality({j \in Needing : Carried(j) # 0})

\* of a participant with a stale id and one with none, only the first is
\* listed
C20_Witness ==
    /\ Assigned
    /\ Len(call.participants) = 2
    /\ Carried(1) # 0 /\ Carried(1) \notin FreePool
    /\ Carried(2) = 0
    /\ call.result.replaced_aliases = <<call.participants[1].alias>>

\* ---- C21
\* the call returned a result
Answered == call.phase = "done" /\ call.result.error = "none"

\* C21: the subscriptions that get_available_subscriptions and
\* update_subscription_settings return never contain the deployment
\* subscription
C21_DeploymentSubscriptionExcluded ==
    Answered =>
        \A sid \in Range(call.result.subscriptions) : Lower(sid) # Lower(DeploymentSub)

\* update_subscription_settings with an empty allow list returned the
\* deployment subscription among the available ones
C21_Witness ==
    /\ Answered /\ call.op = "update"
    /\ call.allow_list = <<>>
    /\ DeploymentSub \in Range(call.result.subscriptions)

\* the part of C21 that holds: get_available_subscriptions never returns it
C21_GetExcludesDeploymentSubscription ==
    (Answered /\ call.op = "get") =>
        \A sid \in Range(call.result.subscriptions) : Lower(sid) # Lower(DeploymentSub)

\* ---- C22
\* the ids of the inventory listing the call worked on (fetched or cached)
ListedIds == {Lower(sid) : sid \in Range(call.result.listing)}

\* the ids of a stored list that are still in that listing
Live(list) == {Lower(sid) : sid \in Range(list)} \cap ListedIds

\* the listed subscriptions that pass the filters: not the deployment
\* subscription, not denied, and allow-listed when the pruned allow list is
\* not empty
PassingFilters ==
    LET allow == Live(call.before.row.allow_list)
        deny == Live(call.before.row.deny_list)
    IN SelectSeq(call.result.listing,
                 LAMBDA sid : /\ Lower(sid) # Lower(DeploymentSub)
                              /\ Lower(sid) \notin deny
                              /\ allow # {} => Lower(sid) \in allow)

\* C22: get_available_subscriptions returns exactly the listed subscriptions
\* that pass the filters in this order: stale entries pruned, deployment
\* subscription excluded, then the allow list when it is not empty, else all
\* that are not denied
C22_ReturnsFilteredInventory ==
    (Answered /\ call.op = "get") => call.result.subscriptions = PassingFilters

\* of an inventory with the deployment subscription and 2, the allow list
\* <<2, 3>> with its stale 3 lets 2 through
C22_Witness ==
    /\ Answered /\ call.op = "get"
    /\ call.result.listing = <<DeploymentSub, 2>>
    /\ call.before.row.allow_list = <<2, 3>>
    /\ call.before.row.deny_list = <<>>
    /\ call.result.subscriptions = <<2>>

\* ---- C23
\* the entries of the stored lists that are not in the listing
Stale(list) == {Lower(sid) : sid \in Range(list)} \ (ListedIds \cup {0})
StaleEntries == Stale(call.before.row.allow_list) \cup Stale(call.before.row.deny_list)

\* C23: when get_available_subscriptions finds stored allow or deny entries
\* that are not in the inventory listing, it returns them in pruned_ids,
\* returns the two lists without them (and with every other entry), and the
\* stored row holds those lists; after any answered call the stored lists
\* hold ids of listed subscriptions only
C23_StaleEntriesPruned ==
    (Answered /\ call.op = "get") =>
        /\ StaleEntries # {} =>
              /\ StaleEntries \subseteq Range(call.result.pruned_ids)
              /\ Range(call.result.allow_list) = Live(call.before.row.allow_list)
              /\ Live(call.before.row.deny_list) \subseteq Range(call.result.deny_list)
              /\ Range(call.result.deny_list) \cap StaleEntries = {}
              /\ portal = [allow_list |-> call.result.allow_list,
                           deny_list |-> call.result.deny_list]
        /\ Range(portal.allow_list) \cup Range(portal.deny_list) \subseteq ListedIds

\* the stale 3 of both stored lists is pruned and the row rewritten
C23_Witness ==
    /\ Answered /\ call.op = "get"
    /\ call.before.row.allow_list = <<2, 3>>
    /\ call.before.row.deny_list = <<3>>
    /\ 3 \notin ListedIds
    /\ 3 \in Range(call.result.pruned_ids)
    /\ portal.allow_list = <<2>>
    /\ 3 \notin Range(portal.deny_list)

\* ---- C24
\* the conditions under which the claim has the inventory fetched
MustFetch ==
    \/ call.force_refresh
    \/ call.before.cache = <<>>
    \/ call.before.age >= CacheTtl

\* C24: get_available_subscriptions fetches the inventory exactly when
\* force_refresh is set, the cache is empty or the cached copy is at least
\* TTL old, and then works on the fetched inventory; otherwise it works on
\* the cached copy; from_cache is true when the cache served and false when
\* the inventory was fetched
C24_FetchesWhenCacheInvalid ==
    (call.phase = "done" /\ call.op = "get") =>
        /\ call.result.fetched <=> MustFetch
        /\ call.result.fetched =>
              /\ call.result.listing = call.before.inventory
              /\ azure_cache = call.before.inventory
        /\ ~call.result.fetched =>
              /\ call.result.listing = call.before.cache
              /\ azure_cache = call.before.cache
        /\ call.result.error = "none" =>
              (call.result.from_cache <=> ~call.result.fetched)

\* a cached copy as old as the TTL, which the inventory has left behind, is
\* replaced by a fetch although no refresh was asked for
C24_Witness ==
    /\ Answered /\ call.op = "get"
    /\ ~call.force_refresh
    /\ call.before.cache # <<>>
    /\ call.before.cache # call.before.inventory
    /\ call.before.age = CacheTtl
    /\ call.result.fetched /\ ~call.result.from_cache
    /\ call.result.listing = call.before.inventory

\* a young cached copy, which the inventory has left behind, is served
C24_WitnessServed ==
    /\ Answered /\ call.op = "get"
    /\ call.before.cache # call.before.inventory
    /\ call.result.from_cache
    /\ call.result.listing = call.before.cache

\* ---- C25
\* C25: a run of the timer cleans up exactly when the workshop exists and
\* its end date lies strictly before the run's UTC date; a run that finds
\* the workshop ending today or later returns without touching the store or
\* the cloud, and every deletion, failure record and status change the timer
\* makes is for a workshop that ended before the run's date
C25_OnlyExpiredCleanedUp ==
    [][(cl' # cl) =>
          /\ Returned(cl) =>
                /\ Outside' = Outside
                /\ (cl'.pc = "rgs") <=> (ws.exists /\ ws.end_date < cl'.today)
                /\ (cl'.pc = "gone") <=> ~(ws.exists /\ ws.end_date < cl'.today)
          /\ (Outside' # Outside) => (ws.exists /\ ws.end_date < cl.today)]_vars

\* the timer ran on the workshop's last day and left the workshop alone
C25_Witness ==
    /\ cl.pc = "gone"
    /\ ws.exists /\ cl.today = ws.end_date
    /\ ws.status = "active"
    /\ az_users # {} /\ az_rgs # {}
    /\ fails = {}

\* the timer ran a day later and has deleted the workshop's resources
C25_WitnessExpired ==
    /\ cl.pc = "finish"
    /\ ws.exists /\ cl.today > ws.end_date
    /\ az_users = {} /\ az_rgs = {}

\* ---- C26
\* C26: the store never holds a failure record of a workshop whose record
\* has been deleted
C26_NoFailureRecordOutlivesWorkshop ==
    ~ws.exists => fails = {}

\* a second delete_workshop call, in which every deletion succeeded, has
\* deleted the workshop record while the failure records of the first call
\* are still in the store
C26_Witness ==
    /\ dw.pc = "returned" /\ dw.result = "deleted"
    /\ ~ws.exists
    /\ fails # {}
    /\ \A f \in fails : f.error_message = "delete_failed"

\* ---- C27
\* C27: once the bulk resource-group creation has produced no resource
\* group for any created user, create_workshop is on its failure path: it
\* persists no workshop record and, before it raises, has attempted the
\* rollback deletion of every identity account it created
C27_NoResourceGroupIsFatal ==
    (cw.created_users # {} /\ cw.created_rgs = {} /\ cw.pc # "rgs") =>
        /\ ~cw.saved
        /\ cw.pc \in {"rollback_rgs", "rollback_users", "raised"}
        /\ cw.pc = "raised" => cw.rb_users = cw.created_users

\* create_workshop returned normally although no resource group was
\* created: a workshop record without participants is stored, and the
\* accounts it created are still there with no rollback attempted
C27_Witness ==
    /\ cw.pc = "returned"
    /\ cw.created_users # {} /\ cw.created_rgs = {}
    /\ ws.exists /\ ws.status = "active" /\ ws.participants = {}
    /\ pw
    /\ cw.rb_users = {}
    /\ cw.created_users \subseteq az_users

\* ---- C28
\* C28: create_workshop deletes identity accounts only in the second half
\* of the rollback, when the bulk deletion of every created resource group
\* is over, and resource groups only in the first half; each half is passed
\* once, in that order, whatever failed in it, and then the handler raises
\* the exception that started the rollback
C28_RollbackOrderedSinglePass ==
    [][(cw' # cw) =>
          /\ ~(az_users \subseteq az_users') =>
                /\ cw.pc = "rollback_users"
                /\ cw.rb_rgs = cw.created_rgs
                /\ az_rgs' = az_rgs
          /\ ~(az_rgs \subseteq az_rgs') =>
                /\ cw.pc = "rollback_rgs"
                /\ az_users' = az_users
          /\ cw.pc = "rollback_rgs" =>
                /\ cw'.pc = "rollback_users"
                /\ cw'.error = cw.error
          /\ cw.pc = "rollback_users" =>
                /\ cw'.pc = "raised"
                /\ cw'.error = cw.error
                /\ cw'.rb_failed = cw.rb_failed
          /\ cw.pc = "raised" =>
                /\ cw'.pc = "gone"
                /\ Outside' = Outside
          /\ cw'.pc = "raised" => cw'.error # "none"]_vars

\* the rollback after a failed save is over: a resource group whose
\* deletion failed is still there, the accounts were gone for afterwards,
\* and the handler raises the error of the save
C28_Witness ==
    /\ cw.pc = "raised"
    /\ cw.error = "save_metadata"
    /\ cw.rb_failed # {} /\ cw.rb_failed \subseteq az_rgs
    /\ cw.rb_users = cw.created_users
    /\ cw.created_users \cap az_users = {}

\* ---- C29
\* the place of a call in the chain RBAC -> deploy -> policy
Rank(step) == CASE step = "rbac" -> 1 [] step = "deploy" -> 2 [] step = "policy" -> 3

\* the participants whose setup ran (they have a user and a resource group)
SetUp == {a \in Aliases : cw.setup[a] # "none"}

\* C29: every participant's setup makes its calls one after the other in
\* the order RBAC, deployment, policy, starting with RBAC; a chain whose
\* RBAC assignment or deployment raised ends with that call, and a chain in
\* which nothing raised made every call, the deployment included when a
\* stored template was requested, whatever happened in the other chains
C29_SetupChainOrdered ==
    \A a \in SetUp :
        LET s == cw.steps[a]
        IN /\ s # <<>> /\ s[1] = "rbac"
           /\ \A i, j \in 1..Len(s) : i < j => Rank(s[i]) < Rank(s[j])
           /\ cw.setup[a] \in {"rbac", "deploy"} =>
                 /\ s[Len(s)] = cw.setup[a]
                 /\ "policy" \notin Range(s)
           /\ cw.setup[a] = "rbac" => s = <<"rbac">>
           /\ cw.setup[a] = "ok" =>
                 /\ s[Len(s)] = "policy"
                 /\ ("deploy" \in Range(s)) <=> (cw.template = "found")
                 /\ a \in cw.successful

\* the RBAC assignment of participant 1 raised and nothing else was tried
\* for it, while the chain of participant 2 ran to its end
C29_Witness ==
    /\ cw.pc = "save_metadata"
    /\ cw.setup[1] = "rbac" /\ cw.steps[1] = <<"rbac">>
    /\ cw.setup[2] = "ok" /\ cw.steps[2] = <<"rbac", "deploy", "policy">>
    /\ cw.successful = {2}

\* the deployment of participant 1 raised: no policy was assigned for it
C29_WitnessDeploy ==
    /\ cw.pc = "save_metadata"
    /\ cw.setup[1] = "deploy" /\ cw.steps[1] = <<"rbac", "deploy">>
    /\ cw.setup[2] = "ok" /\ cw.steps[2] = <<"rbac", "deploy", "policy">>

\* ---- C30
\* C30: each of the four bulk calls of create_workshop and delete_workshop
\* runs the operation of every item it was given, although some of them
\* fail, and returns to the handler, which goes on to its next step;
\* create_users_bulk and create_resource_groups_bulk return exactly the
\* items that now exist, delete_resource_groups_bulk and delete_users_bulk
\* report True exactly for the items they deleted and leave the others as
\* they were
C30_BulkCallsAttemptEveryItem ==
    [][/\ (cw.pc = "users" /\ cw' # cw) =>
             /\ cw'.tried_users = cw.participants
             /\ az_users' \ az_users = IF cw'.pc = "rgs" THEN cw'.created_users ELSE {}
             /\ (cw'.pc = "rgs") <=> (az_users' # az_users)
       /\ (cw.pc = "rgs" /\ cw' # cw) =>
             /\ cw'.tried_rgs = cw.created_users
             /\ cw'.created_rgs = az_rgs' \ az_rgs
             /\ cw'.pc = "setup"
       /\ (dw.pc = "rgs" /\ dw' # dw) =>
             /\ dw'.tried_rgs = dw.metadata.participants
             /\ \A a \in dw.metadata.participants :
                   /\ dw'.rg_status[a] => a \notin az_rgs'
                   /\ ~dw'.rg_status[a] => (a \in az_rgs' <=> a \in az_rgs)
             /\ dw'.pc = "users"
       /\ (dw.pc = "users" /\ dw' # dw) =>
             /\ dw'.tried_users = dw.metadata.participants
             /\ \A a \in dw.metadata.participants :
                   /\ dw'.user_status[a] => (a \in az_users /\ a \notin az_users')
                   /\ ~dw'.user_status[a] => (a \in az_users' <=> a \in az_users)
             /\ dw'.pc = "track"]_vars

\* the deletion of the first resource group of a delete_workshop call
\* failed, and the second one was deleted all the same
C30_Witness ==
    /\ dw.pc = "users"
    /\ dw.metadata.participants = {1, 2}
    /\ dw.tried_rgs = {1, 2}
    /\ ~dw.rg_status[1] /\ dw.rg_status[2]
    /\ az_rgs = {1}

\* the first user's creation failed, the second user exists and is returned
C30_WitnessCreate ==
    /\ cw.pc = "rgs"
    /\ cw.participants = {1, 2}
    /\ cw.tried_users = {1, 2}
    /\ cw.created_users = {2}
    /\ az_users = {2}

\* ---- C31
\* the currencies that the successful query responses of the call carry
SuccessfulCurrencies ==
    {GetResourceGroupCost(cost.participants[i].resource_group, cost.queries[i]).currency :
        i \in SucceededScopes}

\* C31: when the query of at least one scope succeeded, the currency that
\* get_workshop_total_cost returns is the currency of a successful response
C31_CurrencyOfSuccessfulResponse ==
    (cost.phase = "done" /\ SucceededScopes # {}) =>
        cost.result.currency \in SuccessfulCurrencies

\* the first scope answered in KRW and the query of the last scope raised:
\* the call returns USD, the currency of no successful response
C31_Witness ==
    /\ cost.phase = "done"
    /\ Len(cost.queries) = 2
    /\ ~cost.queries[1].raises /\ cost.queries[1].rows # <<>>
    /\ cost.queries[1].currency = "KRW"
    /\ cost.queries[2].raises
    /\ SuccessfulCurrencies = {"KRW"}
    /\ cost.result.currency = "USD"

\* the same two scopes in the other order: the call returns KRW
C31_WitnessOtherOrder ==
    /\ cost.phase = "done"
    /\ Len(cost.queries) = 2
    /\ cost.queries[1].raises
    /\ ~cost.queries[2].raises /\ cost.queries[2].rows # <<>>
    /\ cost.queries[2].currency = "KRW"
    /\ cost.result.currency = "KRW"

\* ---- C32
\* C32: a workshop record that is not in the store comes into it only by
\* the save of create_workshop; a record that was deleted never reappears
C32_DeletedRecordNeverReappears ==
    [][(~ws.exists /\ ws'.exists) => cw.pc = "save_metadata"]_vars

\* update_survey_url read the record before delete_workshop deleted it and
\* wrote it back afterwards: delete_workshop is about to answer that the
\* workshop was deleted, and the record is in the store again
C32_Witness ==
    /\ dw.pc = "returned" /\ dw.result = "deleted"
    /\ ws.exists /\ ws.survey = 1
    /\ su = SuIdle
    /\ cw.pc = "gone"

\* ---- C33
\* C33: a retry whose delete_user call returned False without raising is a
\* failed retry: retry_one does not report success and the failure record
\* stays in the store
C33_FalseOutcomeIsFailedRetry ==
    (r1.pc \in {"finalize", "returned"} /\ r1.outcome = "false") =>
        /\ ~r1.success
        /\ RowExists(fails, r1.failure.id)

\* the user of a failure record was deleted by a second delete_workshop
\* call; retry_one of the record gets False from delete_user, removes the
\* record and answers that the retry succeeded
C33_Witness ==
    /\ r1.pc = "returned"
    /\ r1.failure.resource_type = "user"
    /\ r1.outcome = "false"
    /\ r1.success /\ r1.result = "Retry succeeded"
    /\ ~RowExists(fails, r1.failure.id)

\* ---- C34
\* the retry_count of the stored row with this id
StoredCount(fs, id) == (CHOOSE g \in fs : g.id = id).retry_count

\* C34: every failed retry of a stored failure record, by retry_one or by a
\* turn of retry_all, leaves the record with a retry_count one higher than
\* the one it had
C34_FailedRetryAddsOne ==
    [][/\ (r1.pc = "delete" /\ r1'.pc = "returned" /\ RowExists(fails, r1.failure.id)) =>
             StoredCount(fails', r1.failure.id) = StoredCount(fails, r1.failure.id) + 1
       /\ (ra.pc = "loop" /\ ra'.failed = ra.failed + 1) =>
             StoredCount(fails', NextItem(ra.items).id)
                 = StoredCount(fails, NextItem(ra.items).id) + 1]_vars

\* retry_one and retry_all listed the only record of the workshop with
\* retry_count 0, the retry of each of them failed, and the record's
\* retry_count is 1 after the two failed retries
C34_Witness ==
    /\ r1.pc = "returned" /\ r1.result = "Retry failed"
    /\ r1.failure.retry_count = 0
    /\ ra.all = {r1.failure} /\ ra.items = {}
    /\ ra.failed = 1 /\ ra.succeeded = 0
    /\ StoredCount(fails, r1.failure.id) = 1

\* ---- C35
\* C35: when create_workshop returns successfully, every account and every
\* resource group it created that still exists belongs to a participant of
\* the persisted workshop record
C35_NothingCreatedOutsideRecord ==
    cw.pc = "returned" =>
        /\ ws.exists
        /\ (cw.created_users \cap az_users) \subseteq ws.participants
        /\ (cw.created_rgs \cap az_rgs) \subseteq ws.participants

\* the setup of participant 1 failed at the RBAC assignment: the workshop is
\* persisted with participant 2 only, and the account and the resource group
\* of participant 1 exist outside the record
C35_Witness ==
    /\ cw.pc = "returned"
    /\ cw.setup[1] = "rbac" /\ cw.setup[2] = "ok"
    /\ ws.exists /\ ws.participants = {2}
    /\ 1 \in az_users /\ 1 \in az_rgs
    /\ cw.rb_users = {} /\ cw.rb_rgs = {}

\* ---- C36
\* C36: every participant of the record create_workshop persisted has had
\* its RBAC role assigned, its template deployed when a template other than
\* "none" was requested, and both policy assignments made, none of them
\* failing
C36_PersistedParticipantsFullySetUp ==
    (cw.saved /\ ws.exists) =>
        \A a \in ws.participants :
            /\ cw.setup[a] = "ok"
            /\ "rbac" \in Range(cw.steps[a])
            /\ cw.template # "none" => "deploy" \in Range(cw.steps[a])
            /\ "policy" \in Range(cw.steps[a])
            /\ cw.policy_failed[a] = {}

\* the location policy assignment of participant 1 failed inside
\* assign_workshop_policies, and participant 1 is in the persisted record
C36_Witness ==
    /\ cw.pc = "returned"
    /\ cw.template = "found"
    /\ cw.steps[1] = <<"rbac", "deploy", "policy">>
    /\ cw.policy_failed[1] = {"location"}
    /\ ws.exists /\ 1 \in ws.participants

\* a template that the store does not hold was requested: participant 1 is
\* persisted without any deployment
C36_WitnessMissingTemplate ==
    /\ cw.pc = "returned"
    /\ cw.template = "missing"
    /\ cw.steps[1] = <<"rbac", "policy">>
    /\ cw.policy_failed[1] = {}
    /\ ws.exists /\ 1 \in ws.participants


\* C37: no write of the settings row stores a deny list that contains the
\* deployment subscription id: the exclusion get_available_subscriptions
\* adds for its own filtering stays out of the store, as the id stays out of
\* what update_subscription_settings saves.
C37_DenyListNeverHoldsDeploymentSubscription ==
    [][portal' # portal => Lower(DeploymentSub) \notin Range(portal'.deny_list)]_vars

\* a get_available_subscriptions call that found a row without the
\* deployment subscription, pruned a stale id and so saved its lists: the
\* deployment subscription is in the stored deny list now
C37_Witness ==
    /\ Answered /\ call.op = "get"
    /\ Lower(DeploymentSub) \notin Range(call.before.row.deny_list)
    /\ call.result.pruned_ids # <<>>
    /\ DeploymentSub \in Range(call.result.listing)
    /\ Lower(DeploymentSub) \in Range(portal.deny_list)

\* update_subscription_settings was handed the deployment subscription in the
\* deny list and saved a row without it
C37_WitnessUpdate ==
    /\ Answered /\ call.op = "update"
    /\ Lower(DeploymentSub) \in {Lower(x) : x \in Range(call.deny_list)}
    /\ portal = call.result.row
    /\ Lower(DeploymentSub) \notin Range(portal.deny_list)

\* both calls returned a result, the second one was served the subscription
\* list the first one was served and found the row as the first one left it
SecondOfTwo ==
    /\ Answered /\ call.op = "get"
    /\ recall.phase = "done" /\ recall.result.error = "none"
    /\ recall.result.listing = call.result.listing
    /\ recall.before.row = call.result.row
    /\ recall.before.inventory = call.before.inventory

\* C38: pruning converges: a get_available_subscriptions call that
\* immediately follows another one, with the inventory and the stored
\* settings untouched in between, reports an empty pruned_ids and writes no
\* settings (the write happens exactly when pruned_ids is not empty).
C38_PruningConverges ==
    SecondOfTwo => /\ recall.result.pruned_ids = <<>>
                   /\ recall.result.row = recall.before.row

\* the second call pruned again: the deployment subscription, which the
\* listing does not hold, was appended to the deny list and found stale
C38_Witness ==
    /\ SecondOfTwo
    /\ Lower(DeploymentSub) \notin {Lower(x) : x \in Range(recall.result.listing)}
    /\ recall.result.pruned_ids = <<Lower(DeploymentSub)>>

\* the listing holds the deployment subscription: the first call pruned a
\* stale id, the second one has nothing left to prune
C38_WitnessConverged ==
    /\ SecondOfTwo
    /\ call.result.pruned_ids # <<>>
    /\ recall.result.pruned_ids = <<>>


\* what delete_workshop leaves in the store for the deletion statuses
\* rg_status and user_status of the participants P: the resources with a
\* failure record, and whether the row is kept (with status failed)
LeftByDelete(P, rg_status, user_status) ==
    LET rs == FailedResources(P, rg_status, user_status)
    IN [recorded |-> rs, kept |-> rs # {}]

\* what a handler that wrote the failure records new_ids left in the store
LeftInStore(new_ids) ==
    [recorded |-> {<<f.resource_type, f.alias>> : f \in {g \in fails' : g.id \in new_ids}},
     kept |-> ws'.exists /\ ws'.status = "failed"]

\* C39: for the same per-resource deletion outcomes, cleanup_workshop and
\* delete_workshop leave the store in the same state: failure records for
\* the same resources (those whose deletion did not return True), and the
\* workshop row deleted by both or kept with status failed by both.
C39_CleanupLeavesWhatDeleteLeaves ==
    [][/\ (dw.pc = "track" /\ dw'.pc = "returned") =>
              /\ LeftInStore(dw'.new_ids)
                     = LeftByDelete(dw.metadata.participants, dw.rg_status, dw.user_status)
              /\ ~ws'.exists \/ ws'.status = "failed"
       /\ (cl.pc = "finish" /\ cl'.pc = "idle") =>
              /\ LeftInStore(cl.new_ids)
                     = LeftByDelete(cl.participants,
                                    [a \in Aliases |-> cl.rg_result[a] = "true"],
                                    [a \in Aliases |-> cl.user_result[a] = "true"])
              /\ ~ws'.exists \/ ws'.status = "failed"]_vars

\* the timer's run is about to finish after a delete_user call returned
\* False for a user that is gone, and nothing raised: it will delete the row
\* where delete_workshop records a failure and keeps it
C39_Witness ==
    /\ cl.pc = "finish"
    /\ cl.errors = 0
    /\ \E a \in cl.participants : cl.user_result[a] = "false"

\* the timer's run is about to finish after a deletion raised: it keeps the
\* row with status failed, as delete_workshop does
C39_WitnessRaised ==
    /\ cl.pc = "finish"
    /\ \E a \in cl.participants : cl.rg_result[a] = "raised"
    /\ \A a \in cl.participants : cl.user_result[a] # "false"

=============================================================================
